---------------------------- MODULE Spec2Model ----------------------------
(***************************************************************************)
(* hyprlayer-cli: the thoughts configuration resolver (src/config.rs), the *)
(* git-backed sync of a thoughts repository                                *)
(* (src/commands/thoughts/sync.rs, src/git_ops.rs) and the thoughts        *)
(* commands (src/commands/thoughts/).                                      *)
(*                                                                         *)
(* The module holds several specifications over one set of variables.      *)
(* Each specification moves the variables of one part of the program and   *)
(* leaves the others at their initial value:                               *)
(*   SpecResolve  effective_config_for applied to every configuration      *)
(*                document the deserializer accepts                        *)
(*   SpecCmd      the commands init / uninit / sync / status / profile     *)
(*                seen from the configuration file and the symlinks        *)
(*   SpecSync     one thoughts repository and the steps of sync runs on it *)
(***************************************************************************)
EXTENDS Naturals, Sequences, FiniteSets, TLC

VARIABLES
    config,     \* the "thoughts" section of the configuration file (ThoughtsConfig)
    resolved    \* the last EffectiveConfig returned, with the path it was asked for

\* the thoughts repository that sync opens, as git sees it
VARIABLES
    wtDirty,    \* the working tree holds changes that are not staged (untracked included)
    staged,     \* the index differs from the HEAD commit
    head,       \* the commits reachable from HEAD, oldest first
    branch,     \* the commits of the local branch ref (differs from head in a stopped rebase)
    remote,     \* the commits of the branch on origin
    hasRemote,  \* a remote named origin is configured
    rebasing,   \* a rebase stopped on a conflict and was not finished
    nextId      \* the next commit to be created, here or on another machine

\* one run of sync, and what is remembered of the run before it
VARIABLES
    pc,         \* the step the run is at
    ops,        \* the operations the run has performed, in order
    result,     \* what sync returned
    warnings,   \* the warnings the run printed
    changes,    \* what has_changes returned in this run: "true", "false", or None before the call
    committed,  \* the commit this run created
    headAtCheck,\* HEAD's history when has_changes was called
    pushedNew,  \* this run's push changed the history on origin
    cleanStart, \* no edit happened between the staging of the run before and this run's
    touched,    \* the notes were edited since the last staging
    prev        \* how the run before ended

\* the code repositories on disk and the thoughts repository a command works on
VARIABLES
    links,      \* per code repository: the thoughts repository its thoughts/ symlinks
                \* point into, or None when it has no thoughts/ directory
    opened      \* the command that has just run, where, and the thoughts repository
                \* it used; NoCommand once the disk was changed by hand

\* the directories of the code repositories and of the thoughts repositories
VARIABLES
    codeRepos,  \* the code repository paths that exist as directories
    thoughtsDir,\* per code repository: the entries of its thoughts/ directory
    repoDirs    \* the directories that exist inside the thoughts repositories

\* the git hooks of the code repositories
VARIABLES
    hooks       \* per code repository and hook name: the hook file and the <hook>.old
                \* file next to it

\* the configuration document around the "thoughts" section
VARIABLES
    others      \* the names of the other top-level sections of the configuration
                \* file, which belong to other programs

\* the init runs that are under way
VARIABLES
    pending     \* per code repository: how far an init run in it has come, the
                \* configuration it loaded and the one it holds in memory

\* one build of the searchable/ mirror of a thoughts/ directory
VARIABLES
    idx         \* the tree under thoughts/, the traversal's stack, visited set and
                \* file list, and the hard links made

-----------------------------------------------------------------------------
(* Bounds of the model *)

NumRepoPaths == 2
NumProfiles == 2

\* Option::None for an Option<String>
None == "<None>"

RepoPathNames == <<"/r", "/s", "/t">>
ProfileNameList == <<"work", "oss", "lab">>

\* absolute paths of code repositories (keys of repoMappings)
RepoPaths == {RepoPathNames[i] : i \in 1..NumRepoPaths}
\* names a profile can have
ProfileNames == {ProfileNameList[i] : i \in 1..NumProfiles}
\* directory names under <thoughtsRepo>/<reposDir>/
RepoNames == {"myproj", "other"}
\* user names: the setup prompt of init refuses only "global"
Users == {"alice", "shared"}

\* ProfileConfig values: a storage layout {thoughtsRepo, reposDir, globalDir}
Layouts ==
    { [thoughts_repo |-> "~/thoughts", repos_dir |-> "repos", global_dir |-> "global"],
      [thoughts_repo |-> "~/work", repos_dir |-> "projects", global_dir |-> "common"] }

-----------------------------------------------------------------------------
(* config.rs: the data model *)

\* enum RepoMapping { String(String), Object { repo, profile: Option<String> } }
RepoMappingValues ==
    [tag : {"String"}, repo : RepoNames, profile : {None}]
    \cup [tag : {"Object"}, repo : RepoNames, profile : ProfileNames \cup {None}]

\* RepoMapping::repo
repo(m) == m.repo

\* RepoMapping::profile
profile(m) == IF m.tag = "String" THEN None ELSE m.profile

\* HashMap<K, V> with keys drawn from S
PartialMaps(S, V) == UNION {[D -> V] : D \in SUBSET S}

\* every ThoughtsConfig the deserializer accepts, within the bounds
ThoughtsConfigs ==
    [thoughts_repo : {l.thoughts_repo : l \in Layouts},
     repos_dir : {l.repos_dir : l \in Layouts},
     global_dir : {l.global_dir : l \in Layouts},
     user : Users,
     repo_mappings : PartialMaps(RepoPaths, RepoMappingValues),
     profiles : PartialMaps(ProfileNames, Layouts)]

\* there is no configuration file (or it has no "thoughts" section)
NoConfig ==
    [thoughts_repo |-> None, repos_dir |-> None, global_dir |-> None, user |-> None,
     repo_mappings |-> <<>>, profiles |-> <<>>]

\* config_path.exists() and the file has a "thoughts" section
config_exists(cfg) == cfg.thoughts_repo # None

\* no init run is under way
NoPending == [p \in RepoPaths |-> [pc |-> "idle", base |-> NoConfig, cfg |-> NoConfig]]

\* the top-level sections that other programs keep in the configuration file
OtherSections == {"tools"}

\* config.rs ConfigFile: the document as the program's struct holds it, which
\* has the field thoughts and no other
ConfigFile(sections) == {}

\* serde_json::Value: the document as generic JSON, with every section
Value(sections) == sections


\* resolve_dirs taking a profile as a delta on the default layout
resolve_dirs_delta(cfg, prof) ==
    IF prof # None /\ prof \in DOMAIN cfg.profiles
    THEN [thoughts_repo |-> cfg.profiles[prof].thoughts_repo,
          repos_dir |-> cfg.repos_dir,
          global_dir |-> cfg.global_dir]
    ELSE [thoughts_repo |-> cfg.thoughts_repo,
          repos_dir |-> cfg.repos_dir,
          global_dir |-> cfg.global_dir]

\* ThoughtsConfig::resolve_dirs
resolve_dirs(cfg, prof) ==
    IF prof # None /\ prof \in DOMAIN cfg.profiles
    THEN cfg.profiles[prof]
    ELSE [thoughts_repo |-> cfg.thoughts_repo,
          repos_dir |-> cfg.repos_dir,
          global_dir |-> cfg.global_dir]


\* effective_profile_name without the check that the profile exists
effective_profile_name_unchecked(cfg, repo_path) ==
    IF repo_path \in DOMAIN cfg.repo_mappings
    THEN profile(cfg.repo_mappings[repo_path])
    ELSE None

\* effective_profile_name falling back to some configured profile for a path
\* that has no mapping
effective_profile_name_any(cfg, repo_path) ==
    IF repo_path \in DOMAIN cfg.repo_mappings
    THEN LET name == profile(cfg.repo_mappings[repo_path])
         IN IF name # None /\ name \in DOMAIN cfg.profiles THEN name ELSE None
    ELSE IF DOMAIN cfg.profiles = {} THEN None ELSE CHOOSE n \in DOMAIN cfg.profiles : TRUE

\* the profile_name computed at the head of effective_config_for
effective_profile_name(cfg, repo_path) ==
    IF repo_path \in DOMAIN cfg.repo_mappings
    THEN LET name == profile(cfg.repo_mappings[repo_path])
         IN IF name # None /\ name \in DOMAIN cfg.profiles THEN name ELSE None
    ELSE None

\* ThoughtsConfig::effective_config_for
effective_config_for(cfg, repo_path) ==
    LET profile_name == effective_profile_name(cfg, repo_path)
        dirs == resolve_dirs(cfg, profile_name)
    IN [thoughts_repo |-> dirs.thoughts_repo,
        repos_dir |-> dirs.repos_dir,
        global_dir |-> dirs.global_dir,
        profile_name |-> profile_name,
        mapped_name |-> IF repo_path \in DOMAIN cfg.repo_mappings
                        THEN repo(cfg.repo_mappings[repo_path])
                        ELSE None]

-----------------------------------------------------------------------------
(* SpecResolve: the resolver applied to every configuration *)

NoQuery == [path |-> None]

\* no sync run has started
NoRun ==
    /\ pc = "idle"
    /\ ops = <<>>
    /\ result = None
    /\ warnings = <<>>
    /\ changes = None
    /\ committed = 0
    /\ headAtCheck = <<>>
    /\ pushedNew = FALSE
    /\ cleanStart = FALSE
    /\ touched = FALSE
    /\ prev = [ok |-> FALSE, remote |-> FALSE, conflict |-> FALSE, pushed |-> FALSE]

\* a thoughts repository as init leaves it: one commit, nothing to commit
FreshRepo ==
    /\ wtDirty = FALSE
    /\ staged = FALSE
    /\ head = <<0>>
    /\ branch = <<0>>
    /\ rebasing = FALSE
    /\ nextId = 1

gitVars == <<wtDirty, staged, head, branch, remote, hasRemote, rebasing, nextId>>
runVars == <<pc, ops, result, warnings, changes, committed, headAtCheck, pushedNew,
             cleanStart, touched, prev>>
cfgVars == <<config, resolved>>
fsVars == <<links, opened>>
diskVars == <<codeRepos, thoughtsDir, repoDirs>>

\* const HOOK_VERSION
HOOK_VERSION == 1

HookNames == {"pre-commit", "post-commit"}

\* what a hook file can hold: nothing (no file), a hook of someone else, or a
\* hook written by init, which contains "hyprlayer thoughts", a "# Version:"
\* line and the call of <hook>.old; an untagged hook contains "hyprlayer
\* thoughts" and no "# Version:" line with a version after the colon
NoHook == [kind |-> "absent", version |-> 0]
ForeignHook == [kind |-> "foreign", version |-> 0]
UntaggedHook == [kind |-> "untagged", version |-> 0]
OurHook(v) == [kind |-> "ours", version |-> v]
HookContents ==
    {NoHook, ForeignHook, UntaggedHook} \cup {OurHook(v) : v \in 0..(HOOK_VERSION + 1)}

\* a hooks directory without hooks
NoHookFiles == [n \in HookNames |-> [hook |-> NoHook, old |-> NoHook]]

\* init.rs hook_needs_update without the comparison of the versions
hook_needs_update_any_version(content) ==
    IF content.kind = "absent" THEN TRUE
    ELSE IF content.kind = "foreign" THEN FALSE
    ELSE TRUE

\* init.rs hook_needs_update
hook_needs_update(content) ==
    IF content.kind = "absent" THEN TRUE
    ELSE IF content.kind = "foreign" THEN FALSE
    ELSE IF content.kind = "untagged" THEN TRUE
    ELSE content.version < HOOK_VERSION

\* init.rs setup_git_hooks, "Install pre-commit hook" / "Install post-commit
\* hook": h is the hook file with its .old file
install_hook(h) ==
    IF ~hook_needs_update(h.hook)
    THEN h
    ELSE [hook |-> OurHook(HOOK_VERSION),
          old |-> IF h.hook.kind = "foreign" THEN h.hook ELSE h.old]

\* init.rs setup_git_hooks
setup_git_hooks(files) == [n \in HookNames |-> install_hook(files[n])]

\* init.rs setup_git_hooks, "Ok(updated)": the hooks that were written
hooks_updated(files) == {n \in HookNames : hook_needs_update(files[n].hook)}

\* no traversal has started and there is no tree to walk
NoWalk == [pc |-> "idle"]

\* every code repository exists; none has a thoughts/ directory and no thoughts
\* repository has been created
NoDisk ==
    /\ codeRepos = RepoPaths
    /\ thoughtsDir = [p \in RepoPaths |-> {}]
    /\ repoDirs = {}
    /\ hooks = [p \in RepoPaths |-> NoHookFiles]
    /\ idx = NoWalk
    /\ others = OtherSections
    /\ pending = NoPending

\* a path with its ancestors: the directories fs::create_dir_all makes sure of
Prefixes(path) == {SubSeq(path, 1, n) : n \in 1..Len(path)}

\* fs::create_dir_all(path) on the set of existing directories
create_dir_all(dirs, path) == dirs \cup Prefixes(path)

\* std::os::unix::fs::symlink(target, <thoughts>/name) on the entries of a
\* thoughts/ directory: fails when the name is taken
symlink(entries, target, name) ==
    IF \E e \in entries : e.name = name
    THEN [ok |-> FALSE, entries |-> entries]
    ELSE [ok |-> TRUE,
          entries |-> entries \cup {[name |-> name, kind |-> "symlink", to |-> target]}]

\* the searchable/ directory as an entry of thoughts/
Searchable == [name |-> "searchable", kind |-> "dir", to |-> <<>>]

\* init provisioning on top of whatever thoughts/ holds
recreate_thoughts_dir_keep(entries) == entries

\* init, "Create thoughts directory in current repo": an existing thoughts/ is
\* removed recursively and an empty one is created
recreate_thoughts_dir(entries) == {}

\* init, "Create symlinks": the three symlinks in order, stopping at the first
\* error
create_symlinks(entries, repo_thoughts_path, global_path, user) ==
    LET s1 == symlink(entries, Append(repo_thoughts_path, user), user)
        s2 == IF s1.ok
              THEN symlink(s1.entries, Append(repo_thoughts_path, "shared"), "shared")
              ELSE s1
    IN IF s2.ok THEN symlink(s2.entries, global_path, "global") ELSE s2

\* init, "Create directory structure": the per-repository and the global
\* directories of the thoughts repository
create_directory_structure(dirs, repo_thoughts_path, global_path, user) ==
    create_dir_all(
      create_dir_all(
        create_dir_all(
          create_dir_all(dirs, Append(repo_thoughts_path, user)),
          Append(repo_thoughts_path, "shared")),
        Append(global_path, user)),
      Append(global_path, "shared"))

\* no command has run
NoCommand == [cmd |-> None]

\* no code repository has a thoughts/ directory
NoLinks == [p \in RepoPaths |-> None]

ResolveInit ==
    /\ config \in ThoughtsConfigs
    /\ resolved = NoQuery
    /\ FreshRepo /\ hasRemote = FALSE /\ remote = <<>>
    /\ NoRun
    /\ links = NoLinks /\ opened = NoCommand
    /\ NoDisk

\* a caller asks for the effective configuration of repo_path
Resolve(repo_path) ==
    /\ resolved' = [path |-> repo_path, eff |-> effective_config_for(config, repo_path)]
    /\ UNCHANGED <<config, gitVars, runVars, fsVars, diskVars, hooks, idx, others, pending>>

ResolveNext == \E p \in RepoPaths : Resolve(p)

vars == <<cfgVars, gitVars, runVars, fsVars, diskVars, hooks, idx, others, pending>>

SpecResolve == ResolveInit /\ [][ResolveNext]_vars

-----------------------------------------------------------------------------
(* Claims about the resolver, checked under SpecResolve *)

\* the default layout of a configuration: its top-level thoughtsRepo, reposDir, globalDir
DefaultLayout(cfg) ==
    [thoughts_repo |-> cfg.thoughts_repo,
     repos_dir |-> cfg.repos_dir,
     global_dir |-> cfg.global_dir]

\* the layout part of an EffectiveConfig
LayoutOf(eff) ==
    [thoughts_repo |-> eff.thoughts_repo,
     repos_dir |-> eff.repos_dir,
     global_dir |-> eff.global_dir]

Asked == resolved.path # None
AskedMapped == Asked /\ resolved.path \in DOMAIN config.repo_mappings
AskedMapping == config.repo_mappings[resolved.path]

\* C1: for a repository path that is not a key of repoMappings, the resolver
\* returns the default layout with mappedName = None and profileName = None,
\* whatever profiles (and other mappings) the configuration holds.
C1_UnmappedIsDefault ==
    (Asked /\ resolved.path \notin DOMAIN config.repo_mappings) =>
        /\ LayoutOf(resolved.eff) = DefaultLayout(config)
        /\ resolved.eff.mapped_name = None
        /\ resolved.eff.profile_name = None

\* C1 witness: an unmapped path was resolved in a configuration that has a
\* profile whose layout differs from the default one and another repository
\* mapped to that profile.
C1_Witness ==
    /\ Asked
    /\ resolved.path \notin DOMAIN config.repo_mappings
    /\ \E q \in DOMAIN config.repo_mappings :
          /\ profile(config.repo_mappings[q]) \in DOMAIN config.profiles
          /\ config.profiles[profile(config.repo_mappings[q])] # DefaultLayout(config)

\* C2: a mapping whose profile field names a profile that is not a key of
\* profiles resolves to the default layout, with no profileName and with the
\* mapping's repo as mappedName.
C2_MissingProfileFallsBack ==
    (AskedMapped /\ profile(AskedMapping) # None
                 /\ profile(AskedMapping) \notin DOMAIN config.profiles) =>
        /\ LayoutOf(resolved.eff) = DefaultLayout(config)
        /\ resolved.eff.profile_name = None
        /\ resolved.eff.mapped_name = repo(AskedMapping)

\* C2 witness: the resolved mapping names a missing profile while another
\* profile, with a layout other than the default, exists.
C2_Witness ==
    /\ AskedMapped
    /\ profile(AskedMapping) # None
    /\ profile(AskedMapping) \notin DOMAIN config.profiles
    /\ \E n \in DOMAIN config.profiles : config.profiles[n] # DefaultLayout(config)

\* C3: a mapping whose profile field names an existing profile resolves to
\* that profile's thoughtsRepo, reposDir and globalDir (none from the default
\* layout), with profileName = the profile and mappedName = the mapping's
\* repo; a bare-string mapping has no profile and resolves to the default
\* layout.
C3_ProfileIsCompleteOverride ==
    AskedMapped =>
        /\ resolved.eff.mapped_name = repo(AskedMapping)
        /\ (AskedMapping.tag = "Object" /\ AskedMapping.profile \in DOMAIN config.profiles) =>
              /\ LayoutOf(resolved.eff) = config.profiles[AskedMapping.profile]
              /\ resolved.eff.profile_name = AskedMapping.profile
        /\ AskedMapping.tag = "String" =>
              /\ LayoutOf(resolved.eff) = DefaultLayout(config)
              /\ resolved.eff.profile_name = None

\* C3 witness: the resolved mapping names an existing profile all of whose
\* three fields differ from the default layout's.
C3_Witness ==
    /\ AskedMapped
    /\ AskedMapping.tag = "Object"
    /\ AskedMapping.profile \in DOMAIN config.profiles
    /\ LET p == config.profiles[AskedMapping.profile]
       IN /\ p.thoughts_repo # config.thoughts_repo
          /\ p.repos_dir # config.repos_dir
          /\ p.global_dir # config.global_dir

-----------------------------------------------------------------------------
(* SpecSync: sync runs on one thoughts repository (sync.rs, git_ops.rs) *)

\* commits that can be created in one exploration (here and on other machines)
MaxCommits == 3

Range(q) == {q[i] : i \in 1..Len(q)}
Last(q) == q[Len(q)]
IsPrefix(a, b) == Len(a) <= Len(b) /\ SubSeq(b, 1, Len(a)) = a
Count(q, x) == Cardinality({i \in 1..Len(q) : q[i] = x})

\* the commits of history h that history onto does not hold, oldest first
LocalOnly(h, onto) == SelectSeq(h, LAMBDA c : c \notin Range(onto))

\* the history git pull --rebase leaves when it succeeds: the fetched history,
\* then the local commits replayed on it
Rebased(h, onto) == onto \o LocalOnly(h, onto)

\* the configuration sync runs under in SpecSync: the one init writes first
SyncConfig ==
    [thoughts_repo |-> "~/thoughts", repos_dir |-> "repos", global_dir |-> "global",
     user |-> "alice",
     repo_mappings |-> ("/r" :> [tag |-> "String", repo |-> "myproj", profile |-> None]),
     profiles |-> <<>>]

\* the directories init leaves for SyncConfig: /r provisioned into the default
\* thoughts repository
ProvisionedDisk ==
    LET repo_thoughts_path == <<SyncConfig.thoughts_repo, SyncConfig.repos_dir, "myproj">>
        global_path == <<SyncConfig.thoughts_repo, SyncConfig.global_dir>>
    IN /\ codeRepos = RepoPaths
       /\ thoughtsDir = [p \in RepoPaths |->
             IF p = "/r"
             THEN create_symlinks({}, repo_thoughts_path, global_path, SyncConfig.user).entries
             ELSE {}]
       /\ repoDirs = create_directory_structure({}, repo_thoughts_path, global_path,
                                                 SyncConfig.user)
       /\ hooks = [p \in RepoPaths |->
             IF p = "/r" THEN setup_git_hooks(NoHookFiles) ELSE NoHookFiles]
       /\ idx = NoWalk
       /\ others = OtherSections
       /\ pending = NoPending

\* has_changes reporting changes whatever the status list holds
has_changes_always == TRUE

\* GitRepo::has_changes: the status list, untracked files included, is not empty
has_changes == wtDirty \/ staged

\* sync with the index built only once the repository is staged
sync_then_index_late(at, flag, didCommit) ==
    CASE at = "start" -> "open"
      [] at = "open" -> "add_all"
      [] at = "add_all" -> "index"
      [] at = "index" -> "has_changes"
      [] at = "has_changes" -> IF flag THEN "commit" ELSE "remote_url"
      [] at = "commit" -> "remote_url"
      [] at = "remote_url" -> IF flag THEN "pull_rebase" ELSE "return"
      [] at = "pull_rebase" -> "push"
      [] at = "push" -> "return"

\* sync pushing only when the run has committed
sync_then_push_if_committed(at, flag, didCommit) ==
    CASE at = "start" -> "index"
      [] at = "index" -> "open"
      [] at = "open" -> "add_all"
      [] at = "add_all" -> "has_changes"
      [] at = "has_changes" -> IF flag THEN "commit" ELSE "remote_url"
      [] at = "commit" -> "remote_url"
      [] at = "remote_url" -> IF flag THEN "pull_rebase" ELSE "return"
      [] at = "pull_rebase" -> IF didCommit THEN "push" ELSE "return"
      [] at = "push" -> "return"

\* sync pulling only when the run has committed
sync_then_pull_if_committed(at, flag, didCommit) ==
    CASE at = "start" -> "index"
      [] at = "index" -> "open"
      [] at = "open" -> "add_all"
      [] at = "add_all" -> "has_changes"
      [] at = "has_changes" -> IF flag THEN "commit" ELSE "remote_url"
      [] at = "commit" -> "remote_url"
      [] at = "remote_url" -> IF flag THEN (IF didCommit THEN "pull_rebase" ELSE "push")
                                      ELSE "return"
      [] at = "pull_rebase" -> "push"
      [] at = "push" -> "return"

\* sync committing whether or not has_changes found anything
sync_then_commit_always(at, flag, didCommit) ==
    CASE at = "start" -> "index"
      [] at = "index" -> "open"
      [] at = "open" -> "add_all"
      [] at = "add_all" -> "has_changes"
      [] at = "has_changes" -> "commit"
      [] at = "commit" -> "remote_url"
      [] at = "remote_url" -> IF flag THEN "pull_rebase" ELSE "return"
      [] at = "pull_rebase" -> "push"
      [] at = "push" -> "return"

\* sync: the step that follows step `at` when it succeeded. flag is what the
\* step found (has_changes: there are changes; remote_url: origin exists).
sync_then(at, flag, didCommit) ==
    CASE at = "start" -> "index"
      [] at = "index" -> "open"
      [] at = "open" -> "add_all"
      [] at = "add_all" -> "has_changes"
      [] at = "has_changes" -> IF flag THEN "commit" ELSE "remote_url"
      [] at = "commit" -> "remote_url"
      [] at = "remote_url" -> IF flag THEN "pull_rebase" ELSE "return"
      [] at = "pull_rebase" -> "push"
      [] at = "push" -> "return"

\* sync returning the error of a failed pull or push to its caller
sync_on_error_propagate(at) == "propagate"

\* sync: what a run does with the error of step `at`: the error of
\* pull_rebase and of push is printed as a warning and the run goes on, every
\* other error is returned with `?`
sync_on_error(at) ==
    IF at \in {"pull_rebase", "push"} THEN "warn" ELSE "propagate"

\* the run goes on from step `at`, which succeeded
Proceed(at, flag, didCommit) ==
    LET to == sync_then(at, flag, didCommit)
    IN /\ pc' = to
       /\ ops' = Append(ops, at)
       /\ result' = IF to = "return" THEN "Ok" ELSE result

\* step `at` returned the error e, and the run goes on with a warning whatever
\* the step
FailWarns(at, e, didCommit) ==
    /\ Proceed(at, FALSE, didCommit)
    /\ warnings' = Append(warnings, e)

\* step `at` returned the error e
Fail(at, e, didCommit) ==
    IF sync_on_error(at) = "warn"
    THEN /\ Proceed(at, FALSE, didCommit)
         /\ warnings' = Append(warnings, e)
    ELSE /\ pc' = "return"
         /\ ops' = Append(ops, at)
         /\ result' = "Err"
         /\ UNCHANGED warnings

SyncInit ==
    /\ config = SyncConfig
    /\ resolved = NoQuery
    /\ FreshRepo
    /\ hasRemote \in BOOLEAN
    /\ remote = IF hasRemote THEN <<0>> ELSE <<>>
    /\ NoRun
    /\ links = [NoLinks EXCEPT !["/r"] = SyncConfig.thoughts_repo]
    /\ opened = NoCommand
    /\ ProvisionedDisk

\* sync is started: the configuration is read and thoughts/ is found
SyncStart ==
    /\ pc = "idle"
    /\ pc' = sync_then("start", FALSE, FALSE)
    /\ ops' = <<>>
    /\ result' = None
    /\ warnings' = <<>>
    /\ changes' = None
    /\ committed' = 0
    /\ headAtCheck' = <<>>
    /\ pushedNew' = FALSE
    /\ cleanStart' = FALSE
    /\ prev' = IF result = None THEN prev
               ELSE [ok |-> result = "Ok",
                     remote |-> "pull_rebase" \in Range(ops),
                     conflict |-> "conflict" \in Range(warnings),
                     pushed |-> "push" \in Range(ops) /\ "push failed" \notin Range(warnings)]
    /\ UNCHANGED <<touched, gitVars, cfgVars, fsVars, diskVars, hooks, idx, others, pending>>

\* create_search_directory
BuildIndex ==
    /\ pc = "index"
    /\ \E ok \in BOOLEAN :
          IF ok THEN Proceed("index", FALSE, FALSE) /\ UNCHANGED warnings
                ELSE Fail("index", "io", FALSE)
    /\ UNCHANGED <<changes, committed, headAtCheck, pushedNew, cleanStart, touched, prev,
                   gitVars, cfgVars, fsVars, diskVars, hooks, idx, others, pending>>

\* the repository directory is looked up and GitRepo::open is called
Open ==
    /\ pc = "open"
    /\ \E ok \in BOOLEAN :
          IF ok THEN Proceed("open", FALSE, FALSE) /\ UNCHANGED warnings
                ELSE Fail("open", "not a repository", FALSE)
    /\ UNCHANGED <<changes, committed, headAtCheck, pushedNew, cleanStart, touched, prev,
                   gitVars, cfgVars, fsVars, diskVars, hooks, idx, others, pending>>

\* GitRepo::add_all
AddAll ==
    /\ pc = "add_all"
    /\ \E ok \in BOOLEAN :
          IF ok
          THEN /\ Proceed("add_all", FALSE, FALSE)
               /\ staged' = (staged \/ wtDirty)
               /\ wtDirty' = FALSE
               /\ cleanStart' = ~touched
               /\ touched' = FALSE
               /\ UNCHANGED warnings
          ELSE /\ Fail("add_all", "index", FALSE)
               /\ UNCHANGED <<staged, wtDirty, cleanStart, touched>>
    /\ UNCHANGED <<changes, committed, headAtCheck, pushedNew, prev,
                   head, branch, remote, hasRemote, rebasing, nextId, cfgVars, fsVars, diskVars, hooks, idx, others, pending>>

\* GitRepo::has_changes, and the branch sync takes on it
HasChanges ==
    /\ pc = "has_changes"
    /\ \E ok \in BOOLEAN :
          IF ok
          THEN /\ Proceed("has_changes", has_changes, FALSE)
               /\ changes' = IF has_changes THEN "true" ELSE "false"
               /\ headAtCheck' = head
               /\ UNCHANGED warnings
          ELSE /\ Fail("has_changes", "status", FALSE)
               /\ UNCHANGED <<changes, headAtCheck>>
    /\ UNCHANGED <<committed, pushedNew, cleanStart, touched, prev, gitVars, cfgVars, fsVars, diskVars, hooks, idx, others, pending>>

\* GitRepo::commit: the index becomes a commit on HEAD
Commit ==
    /\ pc = "commit"
    /\ \E ok \in BOOLEAN :
          IF ok
          THEN /\ nextId <= MaxCommits
               /\ Proceed("commit", FALSE, TRUE)
               /\ head' = Append(head, nextId)
               /\ branch' = IF rebasing THEN branch ELSE Append(branch, nextId)
               /\ staged' = FALSE
               /\ committed' = nextId
               /\ nextId' = nextId + 1
               /\ UNCHANGED warnings
          ELSE /\ Fail("commit", "commit", FALSE)
               /\ UNCHANGED <<head, branch, staged, committed, nextId>>
    /\ UNCHANGED <<changes, headAtCheck, pushedNew, cleanStart, touched, prev,
                   wtDirty, remote, hasRemote, rebasing, cfgVars, fsVars, diskVars, hooks, idx, others, pending>>

\* GitRepo::remote_url, and the branch sync takes on it
RemoteUrl ==
    /\ pc = "remote_url"
    /\ Proceed("remote_url", hasRemote, committed # 0)
    /\ UNCHANGED <<warnings, changes, committed, headAtCheck, pushedNew, cleanStart,
                   touched, prev, gitVars, cfgVars, fsVars, diskVars, hooks, idx, others, pending>>

\* GitRepo::pull_rebase: git pull --rebase succeeds, stops on a conflict, or
\* fails otherwise
PullRebase ==
    /\ pc = "pull_rebase"
    /\ \/ /\ ~rebasing
          /\ Proceed("pull_rebase", FALSE, committed # 0)
          /\ head' = Rebased(head, remote)
          /\ branch' = Rebased(head, remote)
          /\ UNCHANGED <<warnings, wtDirty, staged, rebasing>>
       \/ /\ ~rebasing
          /\ LocalOnly(head, remote) # <<>>
          /\ LocalOnly(remote, head) # <<>>
          /\ \E k \in 0..(Len(LocalOnly(head, remote)) - 1) :
                head' = remote \o SubSeq(LocalOnly(head, remote), 1, k)
          /\ rebasing' = TRUE
          /\ wtDirty' = TRUE
          /\ staged' = TRUE
          /\ Fail("pull_rebase", "conflict", committed # 0)
          /\ UNCHANGED branch
       \/ /\ Fail("pull_rebase", "pull failed", committed # 0)
          /\ UNCHANGED <<head, branch, wtDirty, staged, rebasing>>
    /\ UNCHANGED <<changes, committed, headAtCheck, pushedNew, cleanStart, touched, prev,
                   remote, hasRemote, nextId, cfgVars, fsVars, diskVars, hooks, idx, others, pending>>

\* GitRepo::push: git push succeeds, or is rejected or fails
Push ==
    /\ pc = "push"
    /\ \/ /\ ~rebasing
          /\ IsPrefix(remote, head)
          /\ Proceed("push", FALSE, committed # 0)
          /\ remote' = head
          /\ pushedNew' = (remote # head)
          /\ UNCHANGED warnings
       \/ /\ Fail("push", "push failed", committed # 0)
          /\ UNCHANGED <<remote, pushedNew>>
    /\ UNCHANGED <<changes, committed, headAtCheck, cleanStart, touched, prev,
                   wtDirty, staged, head, branch, hasRemote, rebasing, nextId, cfgVars, fsVars, diskVars, hooks, idx, others, pending>>

\* sync returns and the process ends
Return ==
    /\ pc = "return"
    /\ pc' = "idle"
    /\ UNCHANGED <<ops, result, warnings, changes, committed, headAtCheck, pushedNew,
                   cleanStart, touched, prev, gitVars, cfgVars, fsVars, diskVars, hooks, idx, others, pending>>

\* the user writes a note through the symlinks of thoughts/
Edit ==
    /\ wtDirty' = TRUE
    /\ touched' = TRUE
    /\ UNCHANGED <<pc, ops, result, warnings, changes, committed, headAtCheck, pushedNew,
                   cleanStart, prev, staged, head, branch, remote, hasRemote, rebasing,
                   nextId, cfgVars, fsVars, diskVars, hooks, idx, others, pending>>

\* another machine pushes a commit to origin
RemoteAdvance ==
    /\ hasRemote
    /\ nextId <= MaxCommits
    /\ remote' = Append(remote, nextId)
    /\ nextId' = nextId + 1
    /\ UNCHANGED <<runVars, wtDirty, staged, head, branch, hasRemote, rebasing, cfgVars, fsVars, diskVars, hooks, idx, others, pending>>

\* between two runs the user finishes a stopped rebase by hand (continue) or
\* gives it up (abort)
UserResolves ==
    /\ pc = "idle"
    /\ rebasing
    /\ \E how \in {"continue", "abort"} :
          /\ head' = IF how = "continue" THEN head \o LocalOnly(branch, head) ELSE branch
          /\ branch' = IF how = "continue" THEN head \o LocalOnly(branch, head) ELSE branch
    /\ rebasing' = FALSE
    /\ wtDirty' = FALSE
    /\ staged' = FALSE
    /\ touched' = TRUE
    /\ UNCHANGED <<pc, ops, result, warnings, changes, committed, headAtCheck, pushedNew,
                   cleanStart, prev, remote, hasRemote, nextId, cfgVars, fsVars, diskVars, hooks, idx, others, pending>>

SyncNext ==
    \/ SyncStart \/ BuildIndex \/ Open \/ AddAll \/ HasChanges \/ Commit
    \/ RemoteUrl \/ PullRebase \/ Push \/ Return
    \/ Edit \/ RemoteAdvance \/ UserResolves

SpecSync == SyncInit /\ [][SyncNext]_vars

-----------------------------------------------------------------------------
(* Claims about sync, checked under SpecSync *)

\* the git operations sync performs on the thoughts repository
GitOps == {"open", "add_all", "has_changes", "commit", "remote_url", "pull_rebase", "push"}

Did(op) == op \in Range(ops)

\* C4 as claimed: with a remote configured, push is attempted only if the same
\* run produced a commit; a run that found no changes never pushes.
C4_PushOnlyAfterCommit ==
    Did("push") => (committed # 0 /\ changes = "true")

\* C4 amended: push is attempted in every run that finds a remote configured,
\* right after the attempt to pull, whether or not the run produced a commit:
\* a run that reported no changes pushes too. Without a remote there is no push.
C4_PushAfterEveryPull ==
    /\ Did("push") => (hasRemote /\ Did("pull_rebase"))
    /\ (Did("pull_rebase") /\ pc # "push") => Did("push")
    /\ (Did("remote_url") /\ hasRemote /\ pc \in {"return", "idle"}) => Did("push")

\* C4 witness: a run that found nothing to commit has pushed.
C4_Witness ==
    /\ pc = "return"
    /\ changes = "false"
    /\ committed = 0
    /\ Did("push")
    /\ "push failed" \notin Range(warnings)

\* a run has committed, pull_rebase and/or push then failed, sync returns
CommittedThenWarned ==
    /\ pc = "return"
    /\ committed # 0
    /\ warnings # <<>>

\* C5 as claimed: when pull_rebase and/or push fails after the commit, sync
\* returns success and the commit made in this run is still HEAD.
C5_CommitStaysHead ==
    CommittedThenWarned => (result = "Ok" /\ Last(head) = committed)

\* C5 amended: a run that has committed returns success whatever pull_rebase
\* and push do (their failures are warnings only), and when one of them has
\* failed the commit made in this run is kept:
\* it is still the tip of HEAD, except when pull --rebase stopped on a conflict,
\* which leaves HEAD detached in the unfinished rebase and the commit the tip of
\* the local branch.
C5_CommitRetained ==
    /\ (pc = "return" /\ committed # 0) => result = "Ok"
    /\ CommittedThenWarned =>
          IF "conflict" \in Range(warnings)
          THEN rebasing /\ Last(branch) = committed
          ELSE Last(head) = committed

\* C5 witness: the run committed, its pull stopped on a conflict and its push
\* failed, and sync returns.
C5_Witness ==
    /\ CommittedThenWarned
    /\ "conflict" \in Range(warnings)
    /\ "push failed" \in Range(warnings)

\* C6 as claimed: every run that gets past staging attempts pull_rebase exactly
\* once when a remote is configured, and never retries it; with no remote
\* neither pull_rebase nor push is attempted and sync ends successfully.
C6_PullOncePastStaging ==
    /\ Count(ops, "pull_rebase") <= 1
    /\ (Did("add_all") /\ pc \in {"return", "idle"} /\ result = "Ok" /\ hasRemote)
          => Count(ops, "pull_rebase") = 1
    /\ (Did("add_all") /\ pc \in {"return", "idle"} /\ hasRemote /\ Last(ops) # "add_all")
          => Count(ops, "pull_rebase") = 1
    /\ ~hasRemote => (~Did("pull_rebase") /\ ~Did("push"))
    /\ (Did("add_all") /\ pc \in {"return", "idle"} /\ ~hasRemote /\ Last(ops) # "add_all")
          => result = "Ok"

\* C6 amended: every run that gets past step 3 (has_changes and, when there
\* are changes, commit, both without error) attempts pull_rebase exactly once
\* when a remote is configured, whether or not it committed, and never retries
\* it; with no remote neither pull_rebase nor push is attempted and such a run
\* ends successfully. A run whose has_changes or commit call fails returns the
\* error before the remote is looked at.
C6_PullOncePastCommit ==
    /\ Count(ops, "pull_rebase") <= 1
    /\ (Did("remote_url") /\ hasRemote /\ pc # "pull_rebase") => Count(ops, "pull_rebase") = 1
    /\ ~hasRemote => (~Did("pull_rebase") /\ ~Did("push"))
    /\ (Did("remote_url") /\ ~hasRemote) => (pc \in {"return", "idle"} /\ result = "Ok")
    /\ (pc \in {"return", "idle"} /\ Did("add_all") /\ ~Did("remote_url")) => result = "Err"

\* C6 witness: a run that found nothing to commit pulled once, the pull
\* failed, and the run went on to return.
C6_Witness ==
    /\ pc = "return"
    /\ committed = 0
    /\ Count(ops, "pull_rebase") = 1
    /\ "pull failed" \in Range(warnings)

\* C7: the search index is rebuilt, and has finished, before the first git
\* operation of the run on the thoughts repository, in every run that performs
\* any git operation, also when there is nothing to commit.
C7_IndexBeforeGit ==
    \A i \in 1..Len(ops) :
        ops[i] \in GitOps => (i > 1 /\ ops[1] = "index" /\ \A j \in 2..Len(ops) : ops[j] # "index")

\* C7 witness: a run with nothing to commit went through every git step after
\* the index build.
C7_Witness ==
    /\ pc = "return"
    /\ changes = "false"
    /\ ops = <<"index", "open", "add_all", "has_changes", "remote_url", "pull_rebase", "push">>

\* step 3 of the run is over: has_changes has answered and the run is past commit
PastStep3 == changes # None /\ pc # "commit"

\* C8 as claimed: after add_all, a commit is created if and only if
\* has_changes is true; when it is false no commit is created and HEAD is
\* unchanged.
C8_CommitIffChanges ==
    PastStep3 =>
        /\ (changes = "true") <=> (committed # 0)
        /\ (changes = "false" /\ pc = "remote_url") => head = headAtCheck

\* C8 amended: after add_all, commit is called if and only if has_changes
\* returned true, and a commit is created by that call unless the call itself
\* fails (sync then returns the error); when has_changes is false commit is not
\* called, no commit is created and HEAD is unchanged.
C8_CommitCalledIffChanges ==
    PastStep3 =>
        /\ (changes = "true") <=> Did("commit")
        /\ committed # 0 => changes = "true"
        /\ (changes = "true" /\ committed = 0) => (result = "Err" /\ Last(ops) = "commit")
        /\ (changes = "false" /\ pc = "remote_url") => head = headAtCheck

\* C8 witness: has_changes answered false although the repository was edited
\* and committed before, and the run is past step 3 without a commit.
C8_Witness ==
    /\ pc = "remote_url"
    /\ changes = "false"
    /\ Len(head) > 1
    /\ committed = 0

\* the run before returned Ok with a remote configured and no conflict, and
\* nothing was edited from its staging to now: this run is the second sync
SecondSync ==
    /\ prev.ok /\ prev.remote /\ ~prev.conflict
    /\ Did("add_all")
    /\ cleanStart /\ ~touched

-----------------------------------------------------------------------------
(* SpecCmd: the commands, seen from the configuration file, the thoughts/  *)
(* directories and the thoughts repository each command works on           *)

\* the keys of the "thoughts" object as ThoughtsConfig is written to the file
\* (serde rename_all = "camelCase")
ThoughtsKeys ==
    {"thoughtsRepo", "reposDir", "globalDir", "user", "repoMappings", "profiles"}

\* init, "Load or create global config": the configuration of the file, or
\* the one made of the answers of the initial setup
init_config(cfg, setup) ==
    IF config_exists(cfg)
    THEN cfg
    ELSE [thoughts_repo |-> setup.layout.thoughts_repo,
          repos_dir |-> setup.layout.repos_dir,
          global_dir |-> setup.layout.global_dir,
          user |-> setup.user,
          repo_mappings |-> <<>>,
          profiles |-> <<>>]

\* the answers that accept the defaults of the initial setup
DefaultSetup ==
    [layout |-> [thoughts_repo |-> "~/thoughts", repos_dir |-> "repos",
                 global_dir |-> "global"],
     user |-> "alice"]

\* init, "Determine profile config": the layout init provisions into
init_profile_config(cfg, prof) ==
    IF prof # None
    THEN cfg.profiles[prof]
    ELSE [thoughts_repo |-> cfg.thoughts_repo,
          repos_dir |-> cfg.repos_dir,
          global_dir |-> cfg.global_dir]

\* init, "Add to repo mappings"
init_mapping(prof, mapped_name) ==
    IF prof # None
    THEN [tag |-> "Object", repo |-> mapped_name, profile |-> prof]
    ELSE [tag |-> "String", repo |-> mapped_name, profile |-> None]

\* sync: the expanded_repo handed to GitRepo::open
sync_expanded_repo(cfg, current_repo) == cfg.thoughts_repo

\* status: the expanded_repo whose git status is shown
status_expanded_repo(cfg, current_repo) == cfg.thoughts_repo

\* uninit.rs load_config_mapping: (mapped_name, profile_name, thoughts_repo)
load_config_mapping(cfg, current_repo_str, force) ==
    IF ~config_exists(cfg)
    THEN [mapped_name |-> None, profile_name |-> None, thoughts_repo |-> None]
    ELSE IF current_repo_str \in DOMAIN cfg.repo_mappings
    THEN [mapped_name |-> repo(cfg.repo_mappings[current_repo_str]),
          profile_name |-> profile(cfg.repo_mappings[current_repo_str]),
          thoughts_repo |-> cfg.thoughts_repo]
    ELSE IF ~force
         THEN [mapped_name |-> None, profile_name |-> None, thoughts_repo |-> None]
         ELSE [mapped_name |-> None, profile_name |-> None,
               thoughts_repo |-> cfg.thoughts_repo]

\* uninit.rs remove_from_config also dropping the mappings of code
\* repositories that are gone
remove_from_config_existing(cfg, repo_key) ==
    [cfg EXCEPT !.repo_mappings =
        [k \in (DOMAIN cfg.repo_mappings \cap codeRepos) \ {repo_key} |->
            cfg.repo_mappings[k]]]

\* uninit.rs remove_from_config
remove_from_config(cfg, repo_key) ==
    [cfg EXCEPT !.repo_mappings =
        [k \in DOMAIN cfg.repo_mappings \ {repo_key} |-> cfg.repo_mappings[k]]]

\* uninit: the thoughts repository named in the closing note, printed only when
\* the repository was mapped
uninit_reported_repo(m) ==
    IF m.mapped_name # None /\ m.thoughts_repo # None THEN m.thoughts_repo ELSE None

\* init, "Map current repository": --directory names a directory that must
\* exist under <thoughtsRepo>/<reposDir>
init_directory_found(dirs, repos_path, directory) ==
    directory = None \/ Append(repos_path, directory) \in dirs

\* init, "Map current repository": the name of --directory, else the name
\* answered (the names of RepoNames are left as they are by
\* sanitize_directory_name)
init_mapped_name(directory, answer) ==
    IF directory # None THEN directory ELSE answer

\* init starts from a configuration without mappings and a thoughts
\* repository that has no directory for the project yet
init_fresh(cfg, dirs, repos_path, mapped_name) ==
    /\ DOMAIN cfg.repo_mappings = {}
    /\ Append(repos_path, mapped_name) \notin dirs

\* uninit removing thoughts/ as a whole before it deals with searchable/
uninit_removals_thoughts_first(entries) ==
    IF Searchable \in entries
    THEN <<"remove thoughts", "remove searchable">>
    ELSE <<"remove thoughts">>

\* uninit: searchable/ is removed when it exists, then thoughts/ as a whole
uninit_removals(entries) ==
    IF Searchable \in entries
    THEN <<"remove searchable", "remove thoughts">>
    ELSE <<"remove thoughts">>

\* profile delete: the "is in use" check, which reads the key "repo_mappings"
\* of the "thoughts" object
delete_in_use(cfg, profile_name) ==
    /\ "repo_mappings" \in ThoughtsKeys
    /\ \E r \in DOMAIN cfg.repo_mappings :
          cfg.repo_mappings[r].tag = "Object" /\ cfg.repo_mappings[r].profile = profile_name

\* what is recorded of a command: whether it returned Ok, the file-system
\* removals it made in order, the thoughts repository it used, the one
\* effective_config_for gives for the code repository under cfg, and the one
\* the symlinks of the code repository pointed into when it started
Ran(cmd, current_repo, ok, did, used, cfg) ==
    opened' = [cmd |-> cmd, path |-> current_repo, ok |-> ok, did |-> did,
               repo |-> used,
               resolved |-> effective_config_for(cfg, current_repo).thoughts_repo,
               profile |-> effective_config_for(cfg, current_repo).profile_name,
               linked |-> links[current_repo]]

\* the mapping and user that the last init provisioned current_repo for, as
\* far as the commands run since then in current_repo tell
Provisioned(current_repo) ==
    IF "prov" \in DOMAIN opened /\ opened.path = current_repo
    THEN opened.prov
    ELSE <<>>

\* the state init leaves: the configuration it wrote and /r linked into the
\* default thoughts repository
CmdInit ==
    /\ config = SyncConfig
    /\ resolved = NoQuery
    /\ FreshRepo /\ hasRemote = FALSE /\ remote = <<>>
    /\ NoRun
    /\ links = [NoLinks EXCEPT !["/r"] = SyncConfig.thoughts_repo]
    /\ opened = NoCommand
    /\ ProvisionedDisk

\* hyprlayer thoughts init [--profile prof] [--directory directory] in
\* current_repo; answer is the directory name given at the prompt when
\* --directory is absent, setup the answers to "Initial Thoughts Setup" when
\* there is no configuration yet. A run cancelled at the "reconfigure?" prompt changes
\* nothing.
init(current_repo, prof, directory, answer, setup) ==
    /\ current_repo \in codeRepos
    /\ prof # None => prof \in DOMAIN init_config(config, setup).profiles
    /\ LET loaded == init_config(config, setup)
           dirs == init_profile_config(loaded, prof)
           expanded_repo == <<dirs.thoughts_repo>>
           repos_path == Append(expanded_repo, dirs.repos_dir)
           ensured == create_dir_all(create_dir_all(repoDirs, expanded_repo), repos_path)
           mapped_name == init_mapped_name(directory, answer)
       IN IF ~init_directory_found(ensured, repos_path, directory)
          THEN \* Err: Directory "..." not found in thoughts repository
               /\ repoDirs' = ensured
               /\ opened' = [cmd |-> "init", path |-> current_repo, ok |-> FALSE,
                             did |-> <<>>, rerun |-> FALSE, prov |-> <<>>,
                             hooks_updated |-> {},
                             before |-> thoughtsDir[current_repo],
                             user |-> loaded.user,
                             directory |-> directory,
                             fresh |-> init_fresh(loaded, repoDirs, repos_path, mapped_name),
                             repo |-> dirs.thoughts_repo,
                             resolved |->
                                 effective_config_for(loaded, current_repo).thoughts_repo,
                             profile |->
                                 effective_config_for(loaded, current_repo).profile_name,
                             linked |-> links[current_repo]]
               /\ UNCHANGED <<config, links, codeRepos, thoughtsDir, hooks, others>>
          ELSE LET cfg == [loaded EXCEPT !.repo_mappings =
                              (current_repo :> init_mapping(prof, mapped_name)) @@ @]
                   repo_thoughts_path == Append(repos_path, mapped_name)
                   global_path == Append(expanded_repo, dirs.global_dir)
                   made == create_symlinks(recreate_thoughts_dir(thoughtsDir[current_repo]),
                                           repo_thoughts_path, global_path, cfg.user)
               IN /\ config' = cfg
                  /\ others' = ConfigFile(others)
                  /\ repoDirs' = create_directory_structure(ensured, repo_thoughts_path,
                                                            global_path, cfg.user)
                  /\ thoughtsDir' = [thoughtsDir EXCEPT ![current_repo] = made.entries]
                  /\ hooks' = IF made.ok
                              THEN [hooks EXCEPT ![current_repo] = setup_git_hooks(@)]
                              ELSE hooks
                  /\ links' = [links EXCEPT ![current_repo] = dirs.thoughts_repo]
                  /\ opened' = [cmd |-> "init", path |-> current_repo, ok |-> made.ok,
                                did |-> IF links[current_repo] # None
                                        THEN <<"remove thoughts">> ELSE <<>>,
                                rerun |-> /\ links[current_repo] # None
                                          /\ Provisioned(current_repo) =
                                                <<init_mapping(prof, mapped_name), cfg.user>>,
                                prov |-> <<init_mapping(prof, mapped_name), cfg.user>>,
                                hooks_updated |-> IF made.ok
                                                  THEN hooks_updated(hooks[current_repo])
                                                  ELSE {},
                                before |-> thoughtsDir[current_repo],
                                user |-> cfg.user,
                                directory |-> directory,
                                fresh |-> init_fresh(loaded, repoDirs, repos_path,
                                                     mapped_name),
                                repo |-> dirs.thoughts_repo,
                                resolved |->
                                    effective_config_for(cfg, current_repo).thoughts_repo,
                                profile |->
                                    effective_config_for(cfg, current_repo).profile_name,
                                linked |-> dirs.thoughts_repo]
                  /\ UNCHANGED codeRepos
    /\ UNCHANGED <<resolved, gitVars, runVars, idx, pending>>

\* hyprlayer thoughts uninit [--force] in current_repo
uninit(current_repo, force) ==
    /\ current_repo \in codeRepos
    /\ links[current_repo] # None
    /\ LET m == load_config_mapping(config, current_repo, force)
       IN /\ links' = [links EXCEPT ![current_repo] = None]
          /\ thoughtsDir' = [thoughtsDir EXCEPT ![current_repo] = {}]
          /\ config' = IF m.mapped_name # None
                       THEN remove_from_config(config, current_repo)
                       ELSE config
          /\ others' = IF m.mapped_name # None THEN ConfigFile(others) ELSE others
          /\ opened' = [cmd |-> "uninit", path |-> current_repo, ok |-> TRUE,
                        did |-> uninit_removals(thoughtsDir[current_repo]),
                        force |-> force,
                        mapped |-> m.mapped_name # None,
                        before |-> thoughtsDir[current_repo],
                        repo |-> uninit_reported_repo(m),
                        resolved |->
                            effective_config_for(config, current_repo).thoughts_repo,
                        profile |->
                            effective_config_for(config, current_repo).profile_name,
                        linked |-> links[current_repo]]
    /\ UNCHANGED <<resolved, codeRepos, repoDirs, gitVars, runVars, hooks, idx, pending>>

\* hyprlayer thoughts sync in current_repo: the searchable/ mirror is rebuilt
\* (its content is SpecIndex's) and the thoughts repository is synced (the git
\* steps are SpecSync's)
sync(current_repo) ==
    /\ current_repo \in codeRepos
    /\ config_exists(config)
    /\ links[current_repo] # None
    /\ thoughtsDir' = [thoughtsDir EXCEPT ![current_repo] = @ \cup {Searchable}]
    /\ opened' = [cmd |-> "sync", path |-> current_repo, ok |-> TRUE,
                  did |-> IF Searchable \in thoughtsDir[current_repo]
                          THEN <<"remove searchable">> ELSE <<>>,
                  repo |-> sync_expanded_repo(config, current_repo),
                  resolved |-> effective_config_for(config, current_repo).thoughts_repo,
                  profile |-> effective_config_for(config, current_repo).profile_name,
                  linked |-> links[current_repo],
                  prov |-> Provisioned(current_repo)]
    /\ UNCHANGED <<cfgVars, links, codeRepos, repoDirs, gitVars, runVars, hooks, idx, others, pending>>

\* hyprlayer thoughts status in current_repo
status(current_repo) ==
    /\ current_repo \in codeRepos
    /\ config_exists(config)
    /\ Ran("status", current_repo, TRUE, <<>>,
           status_expanded_repo(config, current_repo), config)
    /\ UNCHANGED <<cfgVars, links, diskVars, gitVars, runVars, hooks, idx, others, pending>>

\* hyprlayer thoughts profile create profile_name with the layout answered
create(profile_name, layout) ==
    /\ config_exists(config)
    /\ profile_name \notin DOMAIN config.profiles
    /\ config' = [config EXCEPT !.profiles = (profile_name :> layout) @@ @]
    /\ repoDirs' = create_dir_all(repoDirs, <<layout.thoughts_repo>>)
    /\ others' = Value(others)
    /\ opened' = [cmd |-> "create", name |-> profile_name, ok |-> TRUE]
    /\ UNCHANGED <<resolved, links, codeRepos, thoughtsDir, gitVars, runVars, hooks, idx, pending>>

\* hyprlayer thoughts profile delete profile_name [--force]
delete(profile_name, force) ==
    /\ config_exists(config)
    /\ LET refused == ~force /\ delete_in_use(config, profile_name)
           ok == ~refused /\ profile_name \in DOMAIN config.profiles
       IN /\ config' = IF ok
                       THEN [config EXCEPT !.profiles =
                               [k \in DOMAIN config.profiles \ {profile_name} |->
                                   config.profiles[k]]]
                       ELSE config
          /\ others' = Value(others)
          /\ opened' = [cmd |-> "delete", name |-> profile_name, force |-> force,
                        ok |-> ok,
                        existed |-> profile_name \in DOMAIN config.profiles,
                        used_by |-> {r \in DOMAIN config.repo_mappings :
                                       profile(config.repo_mappings[r]) = profile_name}]
    /\ UNCHANGED <<resolved, links, diskVars, gitVars, runVars, hooks, idx, pending>>

\* the checkout of a code repository is moved to a path that is free; its
\* thoughts/ directory moves with it and the configuration is not told
MoveRepo(from, to) ==
    /\ from \in codeRepos
    /\ to \notin codeRepos
    /\ codeRepos' = (codeRepos \ {from}) \cup {to}
    /\ thoughtsDir' = [thoughtsDir EXCEPT ![to] = thoughtsDir[from], ![from] = {}]
    /\ links' = [links EXCEPT ![to] = links[from], ![from] = None]
    /\ hooks' = [hooks EXCEPT ![to] = hooks[from], ![from] = NoHookFiles]
    /\ opened' = NoCommand
    /\ UNCHANGED <<cfgVars, repoDirs, gitVars, runVars, idx, others, pending>>

\* a code repository is cloned to a path that is free
CloneRepo(to) ==
    /\ to \notin codeRepos
    /\ codeRepos' = codeRepos \cup {to}
    /\ opened' = NoCommand
    /\ UNCHANGED <<cfgVars, links, thoughtsDir, repoDirs, gitVars, runVars, hooks, idx, others, pending>>

CmdNext ==
    \/ \E r \in RepoPaths, p \in ProfileNames \cup {None} :
          init(r, p, None, "myproj", DefaultSetup)
    \/ \E r \in RepoPaths, f \in BOOLEAN : uninit(r, f)
    \/ \E r \in RepoPaths : sync(r)
    \/ \E r \in RepoPaths : status(r)
    \/ \E p \in ProfileNames, l \in Layouts : create(p, l)
    \/ \E p \in ProfileNames, f \in BOOLEAN : delete(p, f)

SpecCmd == CmdInit /\ [][CmdNext]_vars

-----------------------------------------------------------------------------
(* The commands and the resolver *)

\* C10: for every configuration and code repository, the thoughts repository
\* that sync works on, that status reports on and that uninit reports is the
\* thoughts_repo effective_config_for returns for that code repository; for a
\* repository mapped to an existing profile it is the profile's, the one init
\* provisioned the symlinks into.
C10_CommandsUseResolvedRepo ==
    (opened.cmd \in {"sync", "status", "uninit"} /\ opened.repo # None)
        => opened.repo = opened.resolved

-----------------------------------------------------------------------------
(* SpecDisk: init, uninit and sync on a machine that starts with one code  *)
(* repository and neither a configuration nor a thoughts repository        *)

\* the answers to the initial setup: the default layout and a user name
Setups == [layout : {DefaultSetup.layout}, user : Users]

DiskInit ==
    /\ config = NoConfig
    /\ resolved = NoQuery
    /\ FreshRepo /\ hasRemote = FALSE /\ remote = <<>>
    /\ NoRun
    /\ links = NoLinks /\ opened = NoCommand
    /\ codeRepos = {"/r"}
    /\ thoughtsDir = [p \in RepoPaths |-> {}]
    /\ repoDirs = {}
    /\ hooks = [p \in RepoPaths |-> NoHookFiles]
    /\ idx = NoWalk
    /\ others = {}
    /\ pending = NoPending

\* the configuration file is deleted by hand
RemoveConfig ==
    /\ config_exists(config)
    /\ config' = NoConfig
    /\ others' = {}
    /\ opened' = NoCommand
    /\ UNCHANGED <<resolved, links, diskVars, gitVars, runVars, hooks, idx, pending>>

DiskNext ==
    \/ \E r \in RepoPaths, n \in RepoNames, su \in Setups : init(r, None, None, n, su)
    \/ \E r \in RepoPaths, su \in Setups : init(r, None, "myproj", "myproj", su)
    \/ \E r \in RepoPaths, f \in BOOLEAN : uninit(r, f)
    \/ \E r \in RepoPaths : sync(r)
    \/ \E r, t \in RepoPaths : MoveRepo(r, t)
    \/ \E t \in RepoPaths : CloneRepo(t)
    \/ RemoveConfig

SpecDisk == DiskInit /\ [][DiskNext]_vars

-----------------------------------------------------------------------------
(* Provisioning and removal of thoughts/ *)

\* the last command was init, run in a code repository whose thoughts/ is still
\* where that run left it
AfterInit == opened.cmd = "init" /\ links[opened.path] # None

\* the last command was init, and the command before it in that repository
\* (a sync in between apart) was an init for the same mapping and user
AfterSecondInit == AfterInit /\ "rerun" \in DOMAIN opened /\ opened.rerun

\* C11: provisioning is idempotent: after init's provisioning has run again
\* for the same repository, mapping and user, thoughts/ holds exactly the three
\* symlinks <user>, shared and global, pointing where they pointed after the
\* first run, with no duplicate and nothing left of the earlier state (a
\* searchable/ mirror included).
C11_ProvisioningIdempotent ==
    AfterSecondInit =>
        LET entries == thoughtsDir[opened.path]
        IN /\ Cardinality(entries) = 3
           /\ {e.name : e \in entries} = {opened.user, "shared", "global"}
           /\ \A e \in entries : e.kind = "symlink"
           /\ entries = opened.before \ {Searchable}

\* the last command was uninit, and it returned Ok
AfterUninit == opened.cmd = "uninit" /\ opened.ok

\* C12: uninit removes the searchable/ mirror before it removes thoughts/, and
\* after a successful uninit the thoughts directory itself no longer exists in
\* the code repository.
C12_UninitRemovesMirrorFirst ==
    AfterUninit =>
        /\ opened.did[Len(opened.did)] = "remove thoughts"
        /\ Searchable \in opened.before =>
              opened.did = <<"remove searchable", "remove thoughts">>
        /\ links[opened.path] = None
        /\ thoughtsDir[opened.path] = {}

\* C12 witness: uninit has run in a repository whose thoughts/ held a
\* searchable/ mirror.
C12_Witness == AfterUninit /\ Searchable \in opened.before

\* C13: uninit run without --force in a code repository that has thoughts/ but
\* is not in the thoughts configuration (no mapping for the current path, or no
\* configuration file) does not remove the thoughts directory; in that
\* situation the directory is removed only when --force is given.
C13_UnmappedUninitNeedsForce ==
    (opened.cmd = "uninit" /\ ~opened.mapped /\ ~opened.force) =>
        /\ opened.did = <<>>
        /\ links[opened.path] # None
        /\ thoughtsDir[opened.path] = opened.before

-----------------------------------------------------------------------------
(* Profile deletion *)

\* C14: profile delete without --force on a profile that at least one repo
\* mapping of the saved configuration refers to returns an error and leaves the
\* configuration as it was (the profile is still there); a profile is removed
\* only if no mapping refers to it or --force is given.
C14_DeleteInUseRefused ==
    (opened.cmd = "delete" /\ ~opened.force /\ opened.used_by # {}) =>
        /\ ~opened.ok
        /\ opened.existed => opened.name \in DOMAIN config.profiles

-----------------------------------------------------------------------------
(* Fresh init *)

\* the last command was init --directory myproj in /r, started from a
\* configuration with no mappings and a thoughts repository without a
\* directory for the project
AfterFreshInit ==
    /\ opened.cmd = "init"
    /\ opened.path = "/r"
    /\ opened.directory = "myproj"
    /\ opened.fresh

-----------------------------------------------------------------------------
(* SpecIndex: one thoughts/ directory, filled by hand, and the builds of   *)
(* its searchable/ mirror (sync.rs create_search_directory)                *)

MaxEntries == 3

\* the canonical directories: "T" is thoughts/ itself, the others are
\* directories inside it or directories that symlinks under it point to
Nodes == {"T", "X", "Y"}

\* a real file that lies outside thoughts/ and is reached through a symlink
Outside == "E"

\* entry names: two ordinary ones and the names the traversal skips
EntryNames == {"a", "b.md", ".git", "CLAUDE.md", "searchable"}

\* name.starts_with('.')
starts_with_dot(name) == name \in {".git"}

\* sync.rs find_files_following_symlinks, "Skip hidden files and CLAUDE.md",
\* with the first test left out
skipped_without_dot(name) == name = "CLAUDE.md" \/ name = "searchable"

\* sync.rs find_files_following_symlinks, "Skip hidden files and CLAUDE.md"
skipped(name) == starts_with_dot(name) \/ name = "CLAUDE.md" \/ name = "searchable"

\* what an entry of a directory can be: a regular file, a plain sub-directory,
\* a symlink to a directory, a symlink to a file, or a symlink to nothing
EntryShapes ==
    {[kind |-> "file", to |-> None]}
        \cup [kind : {"dir"}, to : Nodes \ {"T"}]
        \cup [kind : {"symlink"}, to : Nodes \cup {Outside, None}]

\* fs::metadata(path) of a symlink, taken not to follow it to a file
metadata_dirs_only(e) == IF e.to \in Nodes THEN "dir" ELSE "error"

\* fs::metadata(path) of a symlink, which follows it
metadata(e) ==
    IF e.to \in Nodes THEN "dir" ELSE IF e.to = Outside THEN "file" ELSE "error"

\* the directories that entries lead to from thoughts/, whatever their names
Targets(tree, from) ==
    from \cup {e.to : e \in {x \in tree : x.dir \in from /\ x.to \in Nodes}}

Reach(tree) == Targets(tree, Targets(tree, Targets(tree, {"T"})))

\* the directories that contain d as a plain sub-directory, directly or not
DirParents(tree, ds) ==
    ds \cup {e.dir : e \in {x \in tree : x.kind = "dir" /\ x.to \in ds}}

DirAncestors(tree, d) == DirParents(tree, DirParents(tree, DirParents(tree, {d})))

\* the real file behind a file entry: the entry itself, or the file a symlink
\* resolves to (fs::canonicalize)
RealFile(e) == IF e.kind = "file" THEN <<e.dir, e.name>> ELSE <<e.to>>

\* an empty thoughts/ directory and no build yet
EmptyTree ==
    [pc |-> "idle", tree |-> {}, visited |-> {}, stack |-> <<>>, files |-> {},
     descents |-> [n \in Nodes |-> 0], mirror |-> {}, linked_count |-> 0,
     gone |-> {}]

IndexInit ==
    /\ config = NoConfig
    /\ resolved = NoQuery
    /\ FreshRepo /\ hasRemote = FALSE /\ remote = <<>>
    /\ NoRun
    /\ links = NoLinks /\ opened = NoCommand
    /\ codeRepos = {"/r"}
    /\ thoughtsDir = [p \in RepoPaths |-> {}]
    /\ repoDirs = {}
    /\ hooks = [p \in RepoPaths |-> NoHookFiles]
    /\ idx = EmptyTree
    /\ others = {}
    /\ pending = NoPending

\* an entry is created by hand in a directory that can be reached from
\* thoughts/: thoughts/searchable belongs to the build, a directory has one
\* place as a plain sub-directory and is not inside itself
AddEntry(d, name, shape) ==
    /\ idx.pc = "idle"
    /\ Cardinality(idx.tree) < MaxEntries
    /\ d \in Reach(idx.tree)
    /\ ~\E e \in idx.tree : e.dir = d /\ e.name = name
    /\ ~(d = "T" /\ name = "searchable")
    /\ shape.kind = "dir" =>
          /\ ~\E e \in idx.tree : e.kind = "dir" /\ e.to = shape.to
          /\ shape.to \notin DirAncestors(idx.tree, d)
    /\ idx' = [idx EXCEPT !.tree = @ \cup
                  {[dir |-> d, name |-> name, kind |-> shape.kind, to |-> shape.to]}]
    /\ UNCHANGED <<cfgVars, gitVars, runVars, fsVars, diskVars, hooks, others, pending>>

\* sync.rs find_files_following_symlinks, the test of the visited set, left out
already_visited_never(visited, real_path) == FALSE

\* sync.rs find_files_following_symlinks, "Resolve symlinks to get real path
\* for cycle detection": real_path is the canonical directory
already_visited(visited, real_path) == real_path \in visited

\* sync.rs find_files_following_symlinks up to read_dir: a call for the
\* directory real_path reached by the relative path path; w is the build
find_files_following_symlinks(w, real_path, path) ==
    IF already_visited(w.visited, real_path)
    THEN w
    ELSE [w EXCEPT
            !.visited = @ \cup {real_path},
            !.descents[real_path] = @ + 1,
            !.stack = Append(@, [dir |-> real_path, path |-> path,
                                 todo |-> {e \in w.tree : e.dir = real_path}])]

\* sync.rs create_search_directory, "Remove existing searchable directory",
\* left out: the links of the build before stay
remove_dir_all_kept(links_before) == links_before

\* sync.rs create_search_directory, "Remove existing searchable directory"
\* and "Create new searchable directory": what is left of the links in it
remove_dir_all(links_before) == {}

\* sync.rs create_search_directory up to the call of the traversal: the old
\* searchable/ is removed, an empty one is created, and the traversal is
\* called for thoughts/ with an empty visited set
IndexStart ==
    /\ idx.pc \in {"idle", "done", "failed", "stale"}
    /\ idx' = find_files_following_symlinks(
                  [idx EXCEPT !.pc = "walk", !.visited = {}, !.stack = <<>>,
                              !.files = {}, !.mirror = remove_dir_all(@),
                              !.linked_count = 0,
                              !.descents = [n \in Nodes |-> 0]],
                  "T", <<>>)
    /\ UNCHANGED <<cfgVars, gitVars, runVars, fsVars, diskVars, hooks, others, pending>>

\* sync.rs find_files_following_symlinks, one turn of "for entry in entries":
\* read_dir yields the entries in any order
VisitEntry(e) ==
    /\ idx.pc = "walk"
    /\ idx.stack # <<>>
    /\ LET top == idx.stack[Len(idx.stack)]
           path == Append(top.path, e.name)
           w == [idx EXCEPT !.stack[Len(idx.stack)].todo = @ \ {e}]
       IN  /\ e \in top.todo
           /\ idx' = IF skipped(e.name) THEN w
                     ELSE IF e.kind = "dir" THEN
                         find_files_following_symlinks(w, e.to, path)
                     ELSE IF e.kind = "symlink" THEN
                         IF metadata(e) = "dir" THEN
                             find_files_following_symlinks(w, e.to, path)
                         ELSE IF metadata(e) = "file" THEN
                             [w EXCEPT !.files = @ \cup
                                 {[path |-> path, file |-> RealFile(e)]}]
                         ELSE w
                     ELSE [w EXCEPT !.files = @ \cup
                              {[path |-> path, file |-> RealFile(e)]}]
    /\ UNCHANGED <<cfgVars, gitVars, runVars, fsVars, diskVars, hooks, others, pending>>

\* sync.rs find_files_following_symlinks, "Ok(files)": the entries of the
\* directory are used up and the call returns to its caller
WalkReturn ==
    /\ idx.pc = "walk"
    /\ idx.stack # <<>>
    /\ idx.stack[Len(idx.stack)].todo = {}
    /\ idx' = [idx EXCEPT !.stack = SubSeq(@, 1, Len(@) - 1),
                          !.pc = IF Len(idx.stack) = 1 THEN "link" ELSE "walk"]
    /\ UNCHANGED <<cfgVars, gitVars, runVars, fsVars, diskVars, hooks, others, pending>>

\* sync.rs find_files_following_symlinks: read_dir, an entry or its file type
\* cannot be read, and the error ends the build
WalkError ==
    /\ idx.pc = "walk"
    /\ idx' = [idx EXCEPT !.pc = "failed", !.stack = <<>>]
    /\ UNCHANGED <<cfgVars, gitVars, runVars, fsVars, diskVars, hooks, others, pending>>

\* sync.rs create_search_directory, "Create hard links": fs::hard_link succeeds
\* for the files in made and fails for the others, which is ignored
CreateHardLinks(made) ==
    /\ idx.pc = "link"
    /\ made \subseteq idx.files
    /\ idx' = [idx EXCEPT !.pc = "done", !.mirror = @ \cup made,
                          !.linked_count = Cardinality(made)]
    /\ UNCHANGED <<cfgVars, gitVars, runVars, fsVars, diskVars, hooks, others, pending>>

\* the links in searchable/ that no longer lead to the file they were made
\* for, the tree now being tree
Orphaned(links_made, tree) ==
    {m \in links_made :
        ~\E e \in tree : e.name = m.path[Len(m.path)] /\ RealFile(e) = m.file}

\* after a build, a file or a symlink to a file is removed by hand; the hard
\* link made for it stays in searchable/
RemoveFile(e) ==
    /\ idx.pc \in {"done", "failed", "stale"}
    /\ e \in idx.tree
    /\ e.kind = "file" \/ (e.kind = "symlink" /\ e.to = Outside)
    /\ idx' = [idx EXCEPT !.pc = "stale", !.tree = @ \ {e},
                          !.gone = Orphaned(@ \cup idx.mirror, idx.tree \ {e})]
    /\ UNCHANGED <<cfgVars, gitVars, runVars, fsVars, diskVars, hooks, others, pending>>

\* after a build, a file or a symlink to a file is renamed by hand
RenameFile(e, name) ==
    /\ idx.pc \in {"done", "failed", "stale"}
    /\ e \in idx.tree
    /\ e.kind = "file" \/ (e.kind = "symlink" /\ e.to = Outside)
    /\ ~\E x \in idx.tree : x.dir = e.dir /\ x.name = name
    /\ ~(e.dir = "T" /\ name = "searchable")
    /\ LET tree == (idx.tree \ {e}) \cup {[e EXCEPT !.name = name]}
       IN idx' = [idx EXCEPT !.pc = "stale", !.tree = tree,
                             !.gone = Orphaned(@ \cup idx.mirror, tree)]
    /\ UNCHANGED <<cfgVars, gitVars, runVars, fsVars, diskVars, hooks, others, pending>>

IndexNext ==
    \/ \E d \in Nodes, name \in EntryNames, shape \in EntryShapes : AddEntry(d, name, shape)
    \/ \E e \in idx.tree : RemoveFile(e)
    \/ \E e \in idx.tree, name \in EntryNames : RenameFile(e, name)
    \/ IndexStart
    \/ \E e \in idx.tree : VisitEntry(e)
    \/ WalkReturn
    \/ WalkError
    \/ \E made \in SUBSET idx.files : CreateHardLinks(made)

SpecIndex == IndexInit /\ [][IndexNext]_vars

\* a build that has started goes on until it ends
SpecIndexFair == SpecIndex /\ WF_vars(IndexStart \/ (\E e \in idx.tree : VisitEntry(e)) \/ WalkReturn \/ WalkError \/ (\E made \in SUBSET idx.files : CreateHardLinks(made)))

-----------------------------------------------------------------------------
(* The traversal of the index build *)

\* the directories that can be reached from the directory d, d included
Below(tree, d) == Targets(tree, Targets(tree, Targets(tree, {d})))

\* a symlink that the traversal came to and that points back to the directory
\* it lies in or to a directory above it
LinkToAncestor(e) ==
    /\ ~skipped(e.name)
    /\ e.kind = "symlink"
    /\ e.to \in Nodes
    /\ e.dir \in idx.visited
    /\ e.dir \in Below(idx.tree, e.to)

\* C16: cycle safety: in every tree under thoughts/, those in which a symlink
\* points back to the directory it lies in or to one above it included, no
\* canonical directory is descended into more than once, the list of files of
\* a build has at most one element per entry of the tree, and a traversal that
\* has started ends (with the list of files, or with an error of the file
\* system).
C16_CycleSafe ==
    /\ [](\A n \in Nodes : idx.descents[n] <= 1)
    /\ [](idx.pc \in {"walk", "link", "done"} =>
              Cardinality(idx.files) <= Cardinality(idx.tree))
    /\ (idx.pc = "walk") ~> (idx.pc \in {"link", "done", "failed"})

\* a build has ended on a tree in which two directories point to each other
C16_Witness ==
    /\ idx.pc = "done"
    /\ \E e, f \in idx.tree :
          /\ LinkToAncestor(e) /\ LinkToAncestor(f)
          /\ e.dir # f.dir /\ e.to = f.dir /\ f.to = e.dir

\* a path component that must not occur inside searchable/
Reserved(component) ==
    component = "CLAUDE.md" \/ component = "searchable" \/ starts_with_dot(component)

\* C17: exclusion: whatever the tree under thoughts/, no path inside
\* searchable/ has a component named CLAUDE.md, a component named searchable
\* or a component that starts with '.'.
C17_Exclusion ==
    \A m \in idx.mirror : \A i \in 1..Len(m.path) : ~Reserved(m.path[i])

\* a build has ended and made hard links on a tree in which a directory the
\* traversal read, below thoughts/, holds an entry under a reserved name
C17_Witness ==
    /\ idx.pc = "done"
    /\ idx.mirror # {}
    /\ \E e \in idx.tree :
          e.dir # "T" /\ e.dir \in idx.visited /\ Reserved(e.name)

\* an entry that is a real file or resolves to one
IsFileEntry(e) == e.kind = "file" \/ (e.kind = "symlink" /\ e.to = Outside)

\* the directories under the directory d, which lies at the relative path
\* path, each with the relative paths that lead to it through plain
\* directories and symlinks without a reserved component and without passing
\* a directory twice (seen: the directories on the way)
RECURSIVE DirsBelow(_, _, _, _)
DirsBelow(tree, d, path, seen) ==
    {[path |-> path, dir |-> d]} \cup
    UNION { DirsBelow(tree, e.to, Append(path, e.name), seen \cup {e.to}) :
            e \in {x \in tree : /\ x.dir = d /\ ~Reserved(x.name)
                                /\ x.to \in Nodes /\ x.to \notin seen} }

\* the real files under thoughts/ with the relative paths they have there
FilesBelow(tree) ==
    UNION { {[path |-> Append(at.path, e.name), file |-> RealFile(e)] :
             e \in {x \in tree : x.dir = at.dir /\ ~Reserved(x.name) /\ IsFileEntry(x)}} :
            at \in DirsBelow(tree, "T", <<>>, {"T"}) }

\* a build has ended and no hard link failed
BuiltInFull ==
    idx.pc = "done" /\ idx.linked_count = Cardinality(idx.files)

\* C18 as stated: after a build in which no hard link fails, every real file
\* has a hard link in searchable/ at each relative path it has under
\* thoughts/, the paths through a directory that is reachable by more than one
\* path included.
C18_MirrorAtEveryPath ==
    BuiltInFull => FilesBelow(idx.tree) \subseteq idx.mirror

\* C18: after a build in which no hard link fails, every directory under
\* thoughts/ is mirrored at one of the relative paths that lead to it: each
\* real file in it, and each symlink to a file, has a hard link at that path
\* followed by its name; and searchable/ holds no other path.
C18_MirrorAtOnePath ==
    BuiltInFull =>
        /\ idx.mirror \subseteq FilesBelow(idx.tree)
        /\ \A d \in Nodes :
              (\E at \in DirsBelow(idx.tree, "T", <<>>, {"T"}) : at.dir = d) =>
                  \E at \in DirsBelow(idx.tree, "T", <<>>, {"T"}) :
                      /\ at.dir = d
                      /\ \A e \in idx.tree :
                            (e.dir = d /\ ~Reserved(e.name) /\ IsFileEntry(e)) =>
                                [path |-> Append(at.path, e.name),
                                 file |-> RealFile(e)] \in idx.mirror

\* a build has ended without a failed hard link on a tree in which a directory
\* that holds a file is reachable by two paths
C18_Witness ==
    /\ BuiltInFull
    /\ \E m \in idx.mirror, f \in FilesBelow(idx.tree) :
          m.file = f.file /\ m.file # <<Outside>> /\ m.path # f.path

-----------------------------------------------------------------------------
(* SpecOrphans: any configuration, one code repository at the start, code  *)
(* repositories that come and go, and the search for orphaned mappings     *)

\* config.rs find_orphaned_mappings with the test turned around
find_orphaned_mappings_existing(cfg, dirs) ==
    {path \in DOMAIN cfg.repo_mappings : path \in dirs}

\* config.rs find_orphaned_mappings: dirs are the paths for which
\* Path::is_dir holds
find_orphaned_mappings(cfg, dirs) ==
    {path \in DOMAIN cfg.repo_mappings : path \notin dirs}

\* config.rs remove_mappings
remove_mappings(cfg, paths) ==
    [cfg EXCEPT !.repo_mappings =
        [path \in DOMAIN cfg.repo_mappings \ paths |-> cfg.repo_mappings[path]]]

OrphansInit ==
    /\ config \in ThoughtsConfigs
    /\ resolved = NoQuery
    /\ FreshRepo /\ hasRemote = FALSE /\ remote = <<>>
    /\ NoRun
    /\ links = NoLinks /\ opened = NoCommand
    /\ codeRepos = {"/r"}
    /\ thoughtsDir = [p \in RepoPaths |-> {}]
    /\ repoDirs = {}
    /\ hooks = [p \in RepoPaths |-> NoHookFiles]
    /\ idx = NoWalk
    /\ others = OtherSections
    /\ pending = NoPending

\* a caller asks for the orphaned mappings
FindOrphanedMappings ==
    /\ opened' = [cmd |-> "find_orphaned_mappings", before |-> config,
                  result |-> find_orphaned_mappings(config, codeRepos)]
    /\ UNCHANGED <<cfgVars, links, diskVars, gitVars, runVars, hooks, idx, others, pending>>

\* a caller removes the orphaned mappings it found
RemoveOrphanedMappings ==
    /\ config' = remove_mappings(config, find_orphaned_mappings(config, codeRepos))
    /\ opened' = [cmd |-> "remove_mappings", before |-> config,
                  result |-> find_orphaned_mappings(config, codeRepos)]
    /\ UNCHANGED <<resolved, links, diskVars, gitVars, runVars, hooks, idx, others, pending>>

\* the directory of a code repository is deleted
DeleteRepo(path) ==
    /\ path \in codeRepos
    /\ codeRepos' = codeRepos \ {path}
    /\ opened' = NoCommand
    /\ UNCHANGED <<cfgVars, links, thoughtsDir, repoDirs, gitVars, runVars, hooks, idx, others, pending>>

OrphansNext ==
    \/ FindOrphanedMappings
    \/ RemoveOrphanedMappings
    \/ \E r \in RepoPaths : DeleteRepo(r)
    \/ \E r \in RepoPaths : CloneRepo(r)

SpecOrphans == OrphansInit /\ [][OrphansNext]_vars

\* C19: find_orphaned_mappings returns the keys of repoMappings whose path is
\* not an existing directory, every such key and no key whose directory
\* exists, and leaves the configuration as it was.
C19_OrphansExact ==
    opened.cmd = "find_orphaned_mappings" =>
        /\ \A path \in RepoPaths :
              path \in opened.result <=>
                  (path \in DOMAIN config.repo_mappings /\ path \notin codeRepos)
        /\ config = opened.before

\* the search has run on a configuration with a mapping whose repository was
\* deleted and a mapping whose repository exists
C19_Witness ==
    /\ opened.cmd = "find_orphaned_mappings"
    /\ \E gone, there \in DOMAIN config.repo_mappings :
          /\ gone \notin codeRepos /\ gone \in opened.result
          /\ there \in codeRepos /\ there \notin opened.result

-----------------------------------------------------------------------------
(* SpecHooks: init in a code repository whose hooks directory holds hooks  *)
(* of any origin                                                           *)

\* the hook files a hooks directory can hold before init has run: hooks of
\* another tool, hooks of an earlier init, and .old files left behind
HookFiles == [HookNames -> [hook : HookContents, old : {NoHook, ForeignHook}]]

HooksInit ==
    /\ config = NoConfig
    /\ resolved = NoQuery
    /\ FreshRepo /\ hasRemote = FALSE /\ remote = <<>>
    /\ NoRun
    /\ links = NoLinks /\ opened = NoCommand
    /\ codeRepos = {"/r"}
    /\ thoughtsDir = [p \in RepoPaths |-> {}]
    /\ repoDirs = {}
    /\ \E files \in HookFiles :
          hooks = [p \in RepoPaths |-> IF p = "/r" THEN files ELSE NoHookFiles]
    /\ idx = NoWalk
    /\ others = {}
    /\ pending = NoPending

\* another tool, or the user, writes its own hook into a code repository
WriteForeignHook(path, name) ==
    /\ path \in codeRepos
    /\ hooks[path][name].hook # ForeignHook
    /\ hooks' = [hooks EXCEPT ![path][name].hook = ForeignHook]
    /\ opened' = NoCommand
    /\ UNCHANGED <<cfgVars, links, diskVars, gitVars, runVars, idx, others, pending>>

HooksNext ==
    \/ \E r \in RepoPaths, su \in Setups : init(r, None, None, "myproj", su)
    \/ \E r \in RepoPaths, n \in HookNames : WriteForeignHook(r, n)

SpecHooks == HooksInit /\ [][HooksNext]_vars

\* C20: when init runs to its end in a code repository whose pre-commit or
\* post-commit hook is a foreign one, the foreign hook is afterwards the file
\* <hook>.old and the hook is the versioned hook of this program, which calls
\* <hook>.old.
C20_ForeignHookSetAside ==
    [][\A r \in RepoPaths, n \in HookNames :
          (/\ hooks[r][n].hook = ForeignHook
           /\ opened'.cmd = "init" /\ opened'.path = r /\ opened'.ok)
              => hooks'[r][n] = [hook |-> OurHook(HOOK_VERSION), old |-> ForeignHook]]_vars

\* init has just run to its end in the code repository r
InitDone(cmd, r) == cmd.cmd = "init" /\ cmd.path = r /\ cmd.ok

\* C21: hook installation is idempotent and gated by the version: an init that
\* runs to its end right after another one in the same repository writes no
\* hook file and reports no updated hook; a hook file is written only when it
\* is reported, it is left as it was otherwise, and an existing hook of this
\* program is written only when its version tag is lower than HOOK_VERSION or
\* it has no version tag that can be parsed.
C21_HookInstallVersionGated ==
    [][\A r \in RepoPaths : InitDone(opened', r) =>
          /\ \A n \in HookNames :
                IF n \in opened'.hooks_updated
                THEN \/ hooks[r][n].hook = NoHook
                     \/ hooks[r][n].hook = UntaggedHook
                     \/ /\ hooks[r][n].hook.kind = "ours"
                        /\ hooks[r][n].hook.version < HOOK_VERSION
                ELSE hooks'[r][n] = hooks[r][n]
          /\ InitDone(opened, r) =>
                /\ opened'.hooks_updated = {}
                /\ hooks'[r] = hooks[r]]_vars

\* init has run again where the hooks of this program were installed, and has
\* written none of them
C21_Witness ==
    /\ opened.cmd = "init" /\ opened.ok /\ opened.rerun
    /\ opened.hooks_updated = {}
    /\ \A n \in HookNames : hooks[opened.path][n].hook = OurHook(HOOK_VERSION)

-----------------------------------------------------------------------------
(* SpecDoc: the commands of SpecCmd with the other writers of the          *)
(* configuration file, on a file that other programs keep sections in      *)

\* hyprlayer ai configure [--force] on an existing configuration: the agent
\* settings, which the model does not hold, are written into the "thoughts"
\* section of the document read as generic JSON (configure.rs save_config)
configure(force) ==
    /\ config_exists(config)
    /\ others' = Value(others)
    /\ opened' = [cmd |-> "configure", force |-> force, ok |-> TRUE]
    /\ UNCHANGED <<cfgVars, links, diskVars, gitVars, runVars, hooks, idx, pending>>

\* config.rs ThoughtsConfig::save, as the update check calls it: the file
\* becomes the document with the one section "thoughts"
save ==
    /\ config_exists(config)
    /\ others' = ConfigFile(others)
    /\ opened' = [cmd |-> "save", ok |-> TRUE]
    /\ UNCHANGED <<cfgVars, links, diskVars, gitVars, runVars, hooks, idx, pending>>

\* another program writes its section into the configuration file
WriteSection ==
    /\ config_exists(config)
    /\ others # OtherSections
    /\ others' = OtherSections
    /\ opened' = NoCommand
    /\ UNCHANGED <<cfgVars, links, diskVars, gitVars, runVars, hooks, idx, pending>>

DocNext ==
    \/ CmdNext
    \/ \E f \in BOOLEAN : configure(f)
    \/ save
    \/ WriteSection

SpecDoc == CmdInit /\ [][DocNext]_vars

\* C22: every command that saves the configuration (ThoughtsConfig::save,
\* init, uninit, profile create, profile delete, ai configure) leaves each
\* top-level section of the configuration file other than "thoughts" as it
\* was in the file before the command.
C22_OtherSectionsKept ==
    [][opened'.cmd \in {"save", "init", "uninit", "create", "delete", "configure"}
          => others' = others]_vars

-----------------------------------------------------------------------------
(* SpecRace: init runs in two code repositories at the same time, each     *)
(* split where it waits for the user: the configuration is loaded first    *)
(* and saved after the prompts                                             *)

\* one configuration, without mappings, for the runs to start from
RaceInit ==
    /\ config = [SyncConfig EXCEPT !.repo_mappings = <<>>]
    /\ resolved = NoQuery
    /\ FreshRepo /\ hasRemote = FALSE /\ remote = <<>>
    /\ NoRun
    /\ links = NoLinks /\ opened = NoCommand
    /\ NoDisk

\* init.rs "Save config", fs::write, had it read the file again and put only
\* its own mapping into what it found there
fs_write_merged(file, content) ==
    [file EXCEPT !.repo_mappings = content.repo_mappings @@ file.repo_mappings]

\* init.rs "Save config", fs::write(&config_path, ...): the file becomes the
\* document the run holds in memory
fs_write(file, content) == content

\* init.rs "Load or create global config" up to "Add to repo mappings": the
\* run reads the file and, after the prompts, holds the configuration with
\* its mapping added
InitLoad(current_repo, prof, mapped_name) ==
    /\ current_repo \in codeRepos
    /\ config_exists(config)
    /\ prof # None => prof \in DOMAIN config.profiles
    /\ pending[current_repo].pc # "loaded"
    /\ pending' = [pending EXCEPT ![current_repo] =
          [pc |-> "loaded", base |-> config,
           cfg |-> [config EXCEPT !.repo_mappings =
                       (current_repo :> init_mapping(prof, mapped_name)) @@ @]]]
    /\ UNCHANGED <<cfgVars, gitVars, runVars, fsVars, diskVars, hooks, idx, others>>

\* init.rs "Save config": the run writes the document it holds over the file
InitSave(current_repo) ==
    /\ pending[current_repo].pc = "loaded"
    /\ config' = fs_write(config, pending[current_repo].cfg)
    /\ others' = ConfigFile(others)
    /\ pending' = [pending EXCEPT ![current_repo].pc = "saved"]
    /\ opened' = [cmd |-> "init save", path |-> current_repo, ok |-> TRUE]
    /\ UNCHANGED <<resolved, links, diskVars, gitVars, runVars, hooks, idx>>

RaceNext ==
    \/ \E r \in RepoPaths, n \in RepoNames : InitLoad(r, None, n)
    \/ \E r \in RepoPaths : InitSave(r)

SpecRace == RaceInit /\ [][RaceNext]_vars

\* an init run has just saved while another run, which had loaded the file
\* before, has saved as well
SavedAfter(second, first) ==
    /\ opened.cmd = "init save" /\ opened.path = second
    /\ first # second
    /\ pending[first].pc = "saved"
    /\ pending[second].pc = "saved"

\* C23: the configuration file has no version check: when an init run saves,
\* the file is the full document that run holds, whatever was saved since it
\* loaded; a mapping saved by another run is in the file afterwards only if it
\* was there when the last writer loaded.
C23_LastWriterWins ==
    \A second, first \in RepoPaths :
        SavedAfter(second, first) =>
            /\ config = pending[second].cfg
            /\ first \in DOMAIN config.repo_mappings
                  <=> first \in DOMAIN pending[second].base.repo_mappings

\* two init runs loaded before either saved, both have saved, and the mapping
\* of the first one to save is not in the file
C23_Witness ==
    \E second, first \in RepoPaths :
        /\ SavedAfter(second, first)
        /\ pending[first].base = pending[second].base
        /\ first \in DOMAIN pending[first].cfg.repo_mappings
        /\ first \notin DOMAIN config.repo_mappings

-----------------------------------------------------------------------------
(* SpecPull: GitRepo::pull_rebase on every outcome of git pull --rebase    *)

\* the phrases pull_rebase looks for
ConflictMarkers == {"CONFLICT", "Automatic merge failed", "Patch failed"}

\* what git writes to one of its output streams, as the set of the phrases
\* that occur in it
Streams == SUBSET (ConflictMarkers \cup {"fatal"})

\* how the git process ended; "not run" when it could not be started
Exits == {"success", "failure", "not run"}

\* str::contains
contains(text, phrase) == phrase \in text

\* git_ops.rs GitRepo::pull_rebase for the repository at path
pull_rebase(path, exit, stdout, stderr) ==
    IF exit = "not run"
    THEN [kind |-> "Failed to execute git pull --rebase", path |-> None]
    ELSE IF exit # "success"
    THEN IF \/ contains(stderr, "CONFLICT")
            \/ contains(stderr, "Automatic merge failed")
            \/ contains(stderr, "Patch failed")
         THEN [kind |-> "Merge conflict detected. Please resolve conflicts manually in",
               path |-> path]
         ELSE [kind |-> "git pull --rebase failed", path |-> None]
    ELSE [kind |-> "Ok", path |-> None]

\* git pull --rebase has ended in the thoughts repository at path and
\* pull_rebase has not yet looked at its outcome
PullInit ==
    /\ config = SyncConfig
    /\ resolved = NoQuery
    /\ FreshRepo /\ hasRemote = TRUE /\ remote = <<>>
    /\ NoRun
    /\ links = NoLinks
    /\ \E path \in {l.thoughts_repo : l \in Layouts}, exit \in Exits,
          stdout \in Streams, stderr \in Streams :
          opened = [cmd |-> "git pull --rebase", path |-> path, exit |-> exit,
                    stdout |-> stdout, stderr |-> stderr,
                    result |-> [kind |-> None, path |-> None]]
    /\ NoDisk

\* pull_rebase returns
PullReturns ==
    /\ opened.cmd = "git pull --rebase"
    /\ opened.result.kind = None
    /\ opened' = [opened EXCEPT !.result =
                     pull_rebase(opened.path, opened.exit, opened.stdout, opened.stderr)]
    /\ UNCHANGED <<cfgVars, links, diskVars, gitVars, runVars, hooks, idx, others, pending>>

SpecPull == PullInit /\ [][PullReturns]_vars

\* C24: pull_rebase returns the conflict error, with the path of the
\* repository, exactly when git pull --rebase has ended unsuccessfully and
\* its output carries a conflict marker; every other unsuccessful end gives
\* the generic failure and a successful end gives no error.
C24_ConflictIffMarker ==
    (opened.cmd = "git pull --rebase" /\ opened.result.kind # None
        /\ opened.exit # "not run") =>
        LET marked == (opened.stdout \cup opened.stderr) \cap ConflictMarkers # {}
        IN  /\ opened.exit = "success" => opened.result.kind = "Ok"
            /\ (opened.exit = "failure" /\ marked) =>
                  opened.result =
                      [kind |-> "Merge conflict detected. Please resolve conflicts manually in",
                       path |-> opened.path]
            /\ (opened.exit = "failure" /\ ~marked) =>
                  opened.result.kind = "git pull --rebase failed"

\* C25: after every index build, searchable/ holds links only for files that
\* the same build found: no link of an earlier build for a file that was
\* removed or renamed since is left.
C25_BuiltFresh ==
    idx.pc \in {"link", "done"} =>
        /\ idx.mirror \subseteq idx.files
        /\ idx.mirror \cap idx.gone = {}

\* a build has ended and made links, after a file that an earlier build had
\* made a link for was removed or renamed
C25_Witness ==
    /\ idx.pc = "done"
    /\ idx.mirror # {}
    /\ idx.gone # {}

-----------------------------------------------------------------------------
(* SpecMap: init's choice of the directory name for the current code       *)
(* repository (init.rs "Map current repository"), on names spelled out     *)
(* character by character                                                  *)

MaxNameLen == 2

\* the characters of the names: a letter, the two signs that
\* sanitize_directory_name lets pass, a blank and a dot
Chars == {"a", "_", "-", " ", "."}

\* char::is_alphanumeric
is_alphanumeric(c) == c \in {"a"}

\* the names a user can type or a directory can have
DirNames == UNION {[1..n -> Chars] : n \in 1..MaxNameLen}

\* config.rs sanitize_directory_name
sanitize_directory_name(name) ==
    [i \in DOMAIN name |->
        IF ~is_alphanumeric(name[i]) /\ name[i] # "_" /\ name[i] # "-"
        THEN "_" ELSE name[i]]

\* init.rs "Map current repository", existing_repos: the directories under
\* repos_path whose name does not start with '.'
existing_repos(dirs) == {d \in dirs : d[1] # "."}

\* init.rs "Map current repository" and "Create directory structure":
\* directory is the --directory option, dirs the directories under repos_path,
\* selection the choice from the list and input the name typed at the prompt;
\* the result is the name mapped and the directories under repos_path afterwards
map_current_repository(directory, dirs, selection, input) ==
    IF directory.given
    THEN LET sanitized == sanitize_directory_name(directory.name)
         IN IF sanitized \notin dirs
            THEN [ok |-> FALSE, name |-> sanitized, dirs |-> dirs]
            ELSE [ok |-> TRUE, name |-> sanitized, dirs |-> dirs \cup {sanitized}]
    ELSE IF existing_repos(dirs) = {} \/ selection.create
    THEN LET sanitized == sanitize_directory_name(input)
         IN [ok |-> TRUE, name |-> sanitized, dirs |-> dirs \cup {sanitized}]
    ELSE [ok |-> TRUE, name |-> selection.name, dirs |-> dirs \cup {selection.name}]

\* init has come to "Map current repository": the option, the directories in
\* the thoughts repository and the answers the user is going to give (input is
\* the name on the command line when --directory is given, the name typed at
\* the prompt otherwise)
MapInit ==
    /\ config = SyncConfig
    /\ resolved = NoQuery
    /\ FreshRepo /\ hasRemote = FALSE /\ remote = <<>>
    /\ NoRun
    /\ links = NoLinks
    /\ \E given \in BOOLEAN, create_new \in BOOLEAN, input \in DirNames,
          dirs \in {{}} \cup {{d} : d \in DirNames} :
          \E pick \in IF create_new \/ given THEN {input} ELSE existing_repos(dirs) :
          opened = [cmd |-> "init", step |-> "map",
                    directory |-> [given |-> given, name |-> input],
                    dirs |-> dirs,
                    selection |-> [create |-> create_new, name |-> pick],
                    input |-> input,
                    result |-> [ok |-> FALSE, name |-> <<>>, dirs |-> {}]]
    /\ NoDisk

\* init maps the current repository and creates the directory structure
MapCurrentRepository ==
    /\ opened.cmd = "init"
    /\ opened.step = "map"
    /\ opened' = [opened EXCEPT
                     !.step = "mapped",
                     !.result = map_current_repository(opened.directory, opened.dirs,
                                                       opened.selection, opened.input)]
    /\ UNCHANGED <<cfgVars, links, diskVars, gitVars, runVars, hooks, idx, others, pending>>

SpecMap == MapInit /\ [][MapCurrentRepository]_vars

\* a name made of alphanumeric characters, '_' and '-' only
Sanitized(name) ==
    \A i \in DOMAIN name : is_alphanumeric(name[i]) \/ name[i] = "_" \/ name[i] = "-"

\* C26: on every path through init (--directory given, a new name typed at the
\* prompt, an existing directory picked from the list), the repo name that is
\* mapped is made of alphanumeric characters, '_' and '-' only, and the
\* directory of that name exists under <thoughtsRepo>/<reposDir>/ when init
\* goes on to save the mapping.
C26_MappedNameSanitized ==
    (opened.cmd = "init" /\ opened.step = "mapped" /\ opened.result.ok) =>
        /\ Sanitized(opened.result.name)
        /\ opened.result.name \in opened.result.dirs

-----------------------------------------------------------------------------
(* SpecKeep: init, uninit and profile create while code repositories are   *)
(* deleted, leaving orphaned mappings behind                               *)

KeepNext ==
    \/ \E r \in RepoPaths, p \in ProfileNames \cup {None} :
          init(r, p, None, "myproj", DefaultSetup)
    \/ \E r \in RepoPaths, f \in BOOLEAN : uninit(r, f)
    \/ \E p \in ProfileNames, l \in Layouts : create(p, l)
    \/ \E r \in RepoPaths : DeleteRepo(r)

SpecKeep == CmdInit /\ [][KeepNext]_vars

\* the mappings of cfg for the code repositories other than current_repo
OtherMappings(cfg, current_repo) ==
    [k \in DOMAIN cfg.repo_mappings \ {current_repo} |-> cfg.repo_mappings[k]]

\* C27: init and uninit change at most the key of the current repository in
\* repoMappings: the mappings of every other repository, orphaned ones
\* included, and all profiles are the same in the configuration after the
\* command as before it, and uninit removes no directory of the thoughts
\* repository.
C27_OnlyCurrentKeyChanges ==
    [][\A r \in RepoPaths :
          (opened'.cmd \in {"init", "uninit"} /\ opened'.path = r) =>
              /\ OtherMappings(config', r) = OtherMappings(config, r)
              /\ config'.profiles = config.profiles
              /\ opened'.cmd = "uninit" => repoDirs \subseteq repoDirs']_vars

\* uninit has removed the mapping of /s while the configuration holds a
\* profile and the mapping of /r, whose directory is gone
C27_Witness ==
    /\ opened.cmd = "uninit" /\ opened.path = "/s" /\ opened.mapped
    /\ "/r" \notin codeRepos
    /\ "/r" \in DOMAIN config.repo_mappings
    /\ "/s" \notin DOMAIN config.repo_mappings
    /\ DOMAIN config.profiles # {}
    /\ repoDirs # {}

-----------------------------------------------------------------------------
(* SpecVersion: version.rs is_newer_version on version strings spelled out *)
(* character by character                                                  *)

MaxVersionLen == 3

\* the characters of the version strings: three digits, the dot, the hyphen
\* and a letter
VersionChars == {"0", "1", "9", ".", "-", "b"}

\* the version strings, the empty one included
Versions == UNION {[1..n -> VersionChars] : n \in 0..MaxVersionLen}

\* str::split: the pieces of v between the occurrences of sep
RECURSIVE split(_, _)
split(v, sep) ==
    IF \A i \in DOMAIN v : v[i] # sep
    THEN <<v>>
    ELSE LET i == CHOOSE k \in DOMAIN v : v[k] = sep /\ \A j \in 1..(k - 1) : v[j] # sep
         IN <<SubSeq(v, 1, i - 1)>> \o split(SubSeq(v, i + 1, Len(v)), sep)

\* the value of a decimal digit
digit(c) == CASE c = "0" -> 0 [] c = "1" -> 1 [] c = "9" -> 9

\* s.parse::<u64>() is Ok: s is a non-empty run of digits
parse_ok(s) == s # <<>> /\ \A i \in DOMAIN s : s[i] \in {"0", "1", "9"}

\* the number s.parse::<u64>() gives
RECURSIVE parse_u64(_)
parse_u64(s) ==
    IF s = <<>> THEN 0 ELSE parse_u64(SubSeq(s, 1, Len(s) - 1)) * 10 + digit(s[Len(s)])

\* Iterator::filter_map(|s| s.parse().ok()): the numbers of the pieces that
\* parse, in order
RECURSIVE filter_map_parse(_)
filter_map_parse(pieces) ==
    IF pieces = <<>> THEN <<>>
    ELSE (IF parse_ok(Head(pieces)) THEN <<parse_u64(Head(pieces))>> ELSE <<>>)
            \o filter_map_parse(Tail(pieces))

\* is_newer_version, the closure parse: Vec<u64> of a version string
parse(v) ==
    LET base == split(v, "-")[1]
    IN filter_map_parse(split(base, "."))

\* Vec<u64> ordering where the longer vector is the greater
cmp_length_first(x, y) ==
    IF Len(x) < Len(y) THEN "Less"
    ELSE IF Len(x) > Len(y) THEN "Greater"
    ELSE LET differ == {i \in 1..Len(x) : x[i] # y[i]}
         IN IF differ = {} THEN "Equal"
            ELSE LET i == CHOOSE k \in differ : \A j \in differ : k <= j
                 IN IF x[i] < y[i] THEN "Less" ELSE "Greater"

\* Ord for Vec<u64>: the first position where the vectors differ decides, the
\* lengths when one is a prefix of the other
cmp(x, y) ==
    LET l == IF Len(x) < Len(y) THEN Len(x) ELSE Len(y)
        differ == {i \in 1..l : x[i] # y[i]}
    IN IF differ = {}
       THEN (IF Len(x) < Len(y) THEN "Less"
             ELSE IF Len(x) > Len(y) THEN "Greater" ELSE "Equal")
       ELSE LET i == CHOOSE k \in differ : \A j \in differ : k <= j
            IN IF x[i] < y[i] THEN "Less" ELSE "Greater"

\* version.rs is_newer_version
is_newer_version(a, b) == cmp(parse(a), parse(b)) = "Greater"

\* is_newer_version is about to be called on a and b
VersionInit ==
    /\ config = SyncConfig
    /\ resolved = NoQuery
    /\ FreshRepo /\ hasRemote = FALSE /\ remote = <<>>
    /\ NoRun
    /\ links = NoLinks
    /\ \E a \in Versions, b \in Versions :
          opened = [cmd |-> "is_newer_version", step |-> "called",
                    a |-> a, b |-> b, result |-> FALSE]
    /\ NoDisk

\* is_newer_version returns
IsNewerVersion ==
    /\ opened.cmd = "is_newer_version"
    /\ opened.step = "called"
    /\ opened' = [opened EXCEPT !.step = "returned",
                                !.result = is_newer_version(opened.a, opened.b)]
    /\ UNCHANGED <<cfgVars, links, diskVars, gitVars, runVars, hooks, idx, others, pending>>

SpecVersion == VersionInit /\ [][IsNewerVersion]_vars

\* x is lexicographically greater than y
LexGreater(x, y) ==
    \E i \in 1..Len(x) :
        /\ \A j \in 1..(i - 1) : j <= Len(y) /\ x[j] = y[j]
        /\ i > Len(y) \/ x[i] > y[i]

\* C28: is_newer_version(a, b) is true exactly when the list of the numeric
\* dot-separated segments of a, taken after the pre-release suffix that starts
\* at '-' is stripped, is lexicographically greater than that of b; it is false
\* for equal versions and never true in both directions, segments compare as
\* numbers (10 is newer than 9), and a version is not newer than itself with
\* one more trailing segment (1 against 1.0).
C28_NewerIffLexGreater ==
    (opened.cmd = "is_newer_version" /\ opened.step = "returned") =>
        /\ opened.result = LexGreater(parse(opened.a), parse(opened.b))
        /\ opened.a = opened.b => ~opened.result
        /\ ~(opened.result /\ is_newer_version(opened.b, opened.a))
        /\ (opened.a = <<"1", "0">> /\ opened.b = <<"9">>) => opened.result
        /\ (opened.a = <<"1">> /\ opened.b = <<"1", ".", "0">>) => ~opened.result

\* 9.1 with a pre-release suffix has been found newer than 1.9
C28_Witness ==
    /\ opened.cmd = "is_newer_version" /\ opened.step = "returned"
    /\ opened.a = <<"9", "-", "b">> /\ opened.b = <<"1", ".", "9">>
    /\ opened.result

-----------------------------------------------------------------------------
(* init that returns an error *)

\* C29: an init call that returns an error (--directory not found, or a
\* failure while the storage directories, the thoughts git repository,
\* thoughts/ or one of the three symlinks are created) leaves the repoMappings
\* of the saved configuration as they were before the call: no mapping for the
\* current repository is persisted unless provisioning completed.
C29_FailedInitKeepsMappings ==
    [][(opened'.cmd = "init" /\ ~opened'.ok) =>
          config'.repo_mappings = config.repo_mappings]_vars

-----------------------------------------------------------------------------
(* Errors of the local git steps of sync, checked under SpecSync *)

\* the steps of sync on the thoughts repository that come before remote_url
LocalSteps == {"open", "add_all", "has_changes", "commit"}

\* the errors the steps of LocalSteps return in SpecSync
LocalErrors == {"not a repository", "index", "status", "commit"}

\* C30: when opening the thoughts repository, add_all, has_changes or commit
\* fails during sync, sync returns that error to its caller: the error is
\* never turned into a warning, the failed step is the last one of the run,
\* and neither pull_rebase nor push is attempted in that run.
C30_LocalErrorEndsRun ==
    /\ Range(warnings) \cap LocalErrors = {}
    /\ (result = "Err" /\ ops # <<>> /\ ops[Len(ops)] \in LocalSteps) =>
          /\ pc \in {"return", "idle"}
          /\ ~Did("remote_url") /\ ~Did("pull_rebase") /\ ~Did("push")

\* a run on a repository with a remote has returned the error of commit
C30_Witness ==
    /\ pc = "return" /\ result = "Err"
    /\ hasRemote
    /\ ops # <<>> /\ ops[Len(ops)] = "commit"
    /\ changes = "true"

=============================================================================
